---------------------------- MODULE Spec2Model ----------------------------
(***************************************************************************)
(* ccanvas: the chunk storage and lifecycle engine (active pool, chunk     *)
(* cache, activation, viewport sweep, undo/redo log, save/load).           *)
(*                                                                         *)
(* A chunk's pixel raster is a sequence of CHUNK_SIZE rows; a row is       *)
(* abstracted to one colour.  A render texture is held in storage order    *)
(* (drawing at local row y writes storage row CHUNK_SIZE - y), an Image is *)
(* held top-to-bottom.                                                     *)
(***************************************************************************)
EXTENDS Integers, Sequences, FiniteSets, TLC

(* ------------------------------ bounds -------------------------------- *)
\* chunk edge length (1024 in the program), scaled down
CHUNK_SIZE == 2
\* pool radius (5 in the program), scaled down
CHUNK_POOL_RADIUS == 2
\* cache capacity (512 in the program), scaled down
MAX_CACHED_CHUNKS == 1
\* undo depth (100 in the program), scaled down
MAX_UNDO_ACTIONS == 2
\* longest sequence of calls explored when every operation is enabled
MaxSteps == 5
\* the calls of one behaviour of SpecUndo
MaxGesture == 7
\* the calls of one behaviour of SpecFrame
MaxFrames == 4
\* world positions under SpecGrid have coordinates in -MaxCoord..MaxCoord
MaxCoord == 5
\* cache capacity under SpecCache, and the calls of one of its behaviours
FirstFitCache == 2
MaxCacheSteps == 5

(* ------------------------- program constants --------------------------- *)
CHUNK_LOAD_PADDING == 1

SAVE_FILE_MAGIC == 1128353366
SAVE_FILE_VERSION == 1

RAYWHITE == 0
\* brush colours other than the background
Colors == {1}
\* brush colours of a gesture
BrushColors == {1, 2}

NULL == 0
Unloaded == <<>>
NoCell == [x |-> 99, y |-> 99]

Vec(x, y) == [x |-> x, y |-> y]

(* ------------------------------- inputs -------------------------------- *)
\* grid cells the callers activate, capture and draw on
Cells == {Vec(0, 0), Vec(3, 0)}
\* world positions handed to Canvas_BeginTextureMode: the last pixel of the top
\* row of each cell of Cells
DrawPositions ==
    {Vec(g.x * CHUNK_SIZE + (CHUNK_SIZE - 1), g.y * CHUNK_SIZE) : g \in Cells}
\* integer world positions (mouse and text positions) under SpecGrid
WorldPositions == {Vec(x, y) : x \in (0 - MaxCoord)..MaxCoord, y \in (0 - MaxCoord)..MaxCoord}
\* (Vector2){x * CHUNK_SIZE, y * CHUNK_SIZE}: the position the brush and text
\* loops hand to Canvas_BeginTextureMode for the chunk (x, y)
ChunkOrigin(gridPos) == Vec(gridPos.x * CHUNK_SIZE, gridPos.y * CHUNK_SIZE)
\* the cells and draw positions under SpecCache: one more cell, outside every
\* view of Views
CacheCells == Cells \cup {Vec(6, 0)}
CachePositions ==
    {Vec(g.x * CHUNK_SIZE + (CHUNK_SIZE - 1), g.y * CHUNK_SIZE) : g \in CacheCells}
\* visible world rectangles (bounding boxes of the unprojected screen corners)
View(gx0, gy0, gx1, gy1) ==
    [min |-> Vec(gx0 * CHUNK_SIZE, gy0 * CHUNK_SIZE),
     max |-> Vec(gx1 * CHUNK_SIZE + 1, gy1 * CHUNK_SIZE + 1)]
\* a view of the cell (0,0), a view of the cell (3,0), and a zoomed-out view
\* that ends at (0,0) and whose padded window has more cells than the pool has
\* slots
WideTo == ((((CHUNK_POOL_RADIUS * 2) + 1) * ((CHUNK_POOL_RADIUS * 2) + 1)) \div 3) - 2
Views == {View(0, 0, 0, 0), View(3, 0, 3, 0), View(0 - WideTo, 0, 0, 0)}

(* ------------------------------ helpers -------------------------------- *)
Min(S) == CHOOSE i \in S : \A j \in S : i <= j
\* index found by a `for (i = 0; ...) if (...) ` scan, NULL when none
First(S) == IF S = {} THEN NULL ELSE Min(S)

Vector2Equals(p, q) == p.x = q.x /\ p.y = q.y

\* the faulty mapping that divides as C divides integers, rounding towards zero
Truncated(a) == IF a >= 0 THEN a \div CHUNK_SIZE ELSE 0 - ((0 - a) \div CHUNK_SIZE)
WorldToGrid_Truncates(worldPos) == Vec(Truncated(worldPos.x), Truncated(worldPos.y))

\* floorf(worldPos / CHUNK_SIZE) on each axis
WorldToGrid(worldPos) ==
    Vec(worldPos.x \div CHUNK_SIZE, worldPos.y \div CHUNK_SIZE)

\* the faulty offset that is taken from the far corner of the chunk
GetLocalChunkPos_FromFarCorner(worldPos, gridPos) ==
    Vec(worldPos.x - (gridPos.x + 1) * CHUNK_SIZE, worldPos.y - (gridPos.y + 1) * CHUNK_SIZE)

GetLocalChunkPos(worldPos, gridPos) ==
    Vec(worldPos.x - gridPos.x * CHUNK_SIZE, worldPos.y - gridPos.y * CHUNK_SIZE)

Rows == 1..CHUNK_SIZE
\* ClearBackground(RAYWHITE) on a fresh render texture
BlankTexture == [r \in Rows |-> RAYWHITE]
\* glReadPixels copy of the texture's storage rows
LoadImageFromTexture(tex) == tex
ImageFlipVertical(img) == [r \in Rows |-> img[CHUNK_SIZE + 1 - r]]
\* DrawTexture(tex, 0, 0) inside BeginTextureMode: image row r (0-based, top)
\* lands at draw row r, which is storage row CHUNK_SIZE - r
DrawTextureInto(img) == [s \in Rows |-> img[CHUNK_SIZE + 1 - s]]
\* a brush/text primitive at local row y (0-based) inside BeginTextureMode
DrawAtRow(tex, y, color) ==
    IF y \in 0..(CHUNK_SIZE - 1)
    THEN [tex EXCEPT ![CHUNK_SIZE - y] = color]
    ELSE tex
\* hot buffer -> snapshot, as every capture site does it
Snapshot(tex) == ImageFlipVertical(LoadImageFromTexture(tex))

(* ------------------------------- state --------------------------------- *)
VARIABLES
    chunks,      \* canvas.chunks: the GPU pool
    cache,       \* canvas.cache: the CPU cache
    undoState,   \* canvas.undoState
    disk,        \* the save file at filePath
    out,         \* what the last call printed (warnings and errors)
    last,        \* the last call: name, argument, return value, NULL activations
    crashed,     \* the call dereferenced a NULL chunk
    latest,      \* history: the content last drawn or restored, per cell
    warned,      \* history: cells named by a cache-full warning since then
    hist,        \* history: what each action of the undo log is to restore
    steps,       \* number of calls made so far (counted under the bounded specs)
    ui           \* main's tool state: currentTool, textInput, isInteractingWithUI,
                 \* lastMousePos, and the left button as the last frame saw it

vars == <<chunks, cache, undoState, disk, out, last, crashed, latest, warned, hist, steps,
          ui>>

totalChunks == ((CHUNK_POOL_RADIUS * 2) + 1) * ((CHUNK_POOL_RADIUS * 2) + 1)
cacheSize == MAX_CACHED_CHUNKS
Slots == 1..totalChunks
CacheSlots == 1..cacheSize

\* a slot with active = false: its other fields are dead (every read of a slot
\* in the program is guarded by .active), so they are not kept
FreeChunk == [active |-> FALSE, gridPos |-> Vec(0, 0), modified |-> FALSE,
              texture |-> Unloaded]
FreeCached == [active |-> FALSE, gridPos |-> Vec(0, 0), image |-> Unloaded]

\* currentAction: a NULL pointer, or an action with its chunkStates (numChunks
\* is their number); the stacks hold undoCount / redoCount actions
NullAction == [isNull |-> TRUE, chunkStates |-> <<>>]
EmptyAction == [isNull |-> FALSE, chunkStates |-> <<>>]
NoUndoState == [undoStack |-> <<>>, redoStack |-> <<>>, currentAction |-> NullAction]

Canvas_Create ==
    /\ chunks = [i \in Slots |-> FreeChunk]
    /\ cache = [j \in CacheSlots |-> FreeCached]
    /\ undoState = NoUndoState

NoFile == [exists |-> FALSE, magic |-> 0, version |-> 0, records |-> <<>>]

\* main's locals before the first frame: currentTool = TOOL_BRUSH, textInput =
\* {0}, and the statics of HandleToolAndDrawing (isInteractingWithUI = false,
\* lastMousePos = {0}); no button is down
UiStart ==
    [currentTool |-> "TOOL_BRUSH", textActive |-> FALSE, textPosition |-> Vec(0, 0),
     isInteractingWithUI |-> FALSE, lastMousePos |-> Vec(0, 0), leftDown |-> FALSE]

Init ==
    /\ Canvas_Create
    /\ disk = NoFile
    /\ out = <<>>
    /\ last = [op |-> "Canvas_Create", arg |-> NoCell, ret |-> TRUE, nulls |-> {},
               path |-> "", evicted |-> {}, log |-> <<>>, early |-> {}, fetched |-> {},
               fresh |-> FALSE,
               released |-> 0, dropped |-> 0, drawn |-> {}, uncaptured |-> {}]
    /\ crashed = FALSE
    /\ latest = [g \in {} |-> Unloaded]
    /\ warned = {}
    /\ hist = [open |-> [g \in {} |-> Unloaded], undo |-> <<>>, redo |-> <<>>,
               undone |-> {}, loaded |-> [g \in {} |-> Unloaded]]
    /\ steps = 0
    /\ ui = UiStart

(* -------------------------- activation protocol ------------------------ *)
ActiveAt(ch, g) == {i \in DOMAIN ch : ch[i].active /\ Vector2Equals(ch[i].gridPos, g)}
InactiveSlots(ch) == {i \in DOMAIN ch : ~ch[i].active}
CachedAt(ca, g) == {j \in DOMAIN ca : ca[j].active /\ Vector2Equals(ca[j].gridPos, g)}
FreeCacheSlots(ca) == {j \in DOMAIN ca : ~ca[j].active}

\* GetAndActivateChunk with one fault seeded, to show what the properties below
\* depend on: "keep" leaves the cache entry active after hydrating from it,
\* "clean" hydrates with modified = false, "dirty" creates a blank chunk with
\* modified = true, "reset" clears the flag of a resident chunk on the fast
\* path, "take" frees the cache entry although the pool is saturated, "raw"
\* copies the cached image into the texture row for row instead of drawing it,
\* "unclear" creates a chunk without ClearBackground and leaves what the new
\* render texture happens to hold
FaultyActivate(ch, ca, gridPos, fault) ==
    LET found == First(ActiveAt(ch, gridPos))
        i == First(InactiveSlots(ch))
        j == First(CachedAt(ca, gridPos))
    IN  IF found # NULL
        THEN [chunks |-> IF fault = "reset"
                         THEN [ch EXCEPT ![found].modified = FALSE] ELSE ch,
              cache |-> ca, chunk |-> found, path |-> "resident"]
        ELSE IF i = NULL
        THEN [chunks |-> ch,
              cache |-> IF fault = "take" /\ j # NULL
                        THEN [ca EXCEPT ![j] = FreeCached] ELSE ca,
              chunk |-> NULL, path |-> "saturated"]
        ELSE IF j # NULL
        THEN [chunks |-> [ch EXCEPT ![i] =
                            [active |-> TRUE, gridPos |-> gridPos,
                             modified |-> (fault # "clean"),
                             texture |-> IF fault = "raw" THEN ca[j].image
                                         ELSE DrawTextureInto(ca[j].image)]],
              cache |-> IF fault = "keep" THEN ca ELSE [ca EXCEPT ![j] = FreeCached],
              chunk |-> i, path |-> "cache"]
        ELSE [chunks |-> [ch EXCEPT ![i] =
                            [active |-> TRUE, gridPos |-> gridPos,
                             modified |-> (fault = "dirty"),
                             texture |-> IF fault = "unclear"
                                         THEN [r \in Rows |-> First(Colors)]
                                         ELSE BlankTexture]],
              cache |-> ca, chunk |-> i, path |-> "blank"]

Activate_KeepsCacheEntry(ch, ca, gridPos) == FaultyActivate(ch, ca, gridPos, "keep")
Activate_HydratesClean(ch, ca, gridPos) == FaultyActivate(ch, ca, gridPos, "clean")
Activate_BlankDirty(ch, ca, gridPos) == FaultyActivate(ch, ca, gridPos, "dirty")
Activate_ResetsResident(ch, ca, gridPos) == FaultyActivate(ch, ca, gridPos, "reset")
Activate_TakesWhenSaturated(ch, ca, gridPos) == FaultyActivate(ch, ca, gridPos, "take")
Activate_CopiesRaw(ch, ca, gridPos) == FaultyActivate(ch, ca, gridPos, "raw")
Activate_SkipsClear(ch, ca, gridPos) == FaultyActivate(ch, ca, gridPos, "unclear")

\* GetAndActivateChunk: the canvas after the call, the slot returned (NULL when
\* the pool is saturated) and the path taken
GetAndActivateChunk(ch, ca, gridPos) ==
    LET found == First(ActiveAt(ch, gridPos))
        i == First(InactiveSlots(ch))
        j == First(CachedAt(ca, gridPos))
    IN  IF found # NULL
        THEN [chunks |-> ch, cache |-> ca, chunk |-> found, path |-> "resident"]
        ELSE IF i = NULL
        THEN [chunks |-> ch, cache |-> ca, chunk |-> NULL, path |-> "saturated"]
        ELSE IF j # NULL
        THEN [chunks |-> [ch EXCEPT ![i] =
                            [active |-> TRUE, gridPos |-> gridPos, modified |-> TRUE,
                             texture |-> DrawTextureInto(ca[j].image)]],
              cache |-> [ca EXCEPT ![j] = FreeCached],
              chunk |-> i, path |-> "cache"]
        ELSE [chunks |-> [ch EXCEPT ![i] =
                            [active |-> TRUE, gridPos |-> gridPos, modified |-> FALSE,
                             texture |-> BlankTexture]],
              cache |-> ca, chunk |-> i, path |-> "blank"]

(* ---------------------------- viewport sweep --------------------------- *)
\* the padded window of Canvas_Update
Window(view) ==
    LET minGrid == WorldToGrid(view.min)
        maxGrid == WorldToGrid(view.max)
    IN  [minX |-> minGrid.x - CHUNK_LOAD_PADDING, minY |-> minGrid.y - CHUNK_LOAD_PADDING,
         maxX |-> maxGrid.x + CHUNK_LOAD_PADDING, maxY |-> maxGrid.y + CHUNK_LOAD_PADDING]

Outside(pos, w) == pos.x < w.minX \/ pos.x > w.maxX \/ pos.y < w.minY \/ pos.y > w.maxY

CacheFull(pos) == [kind |-> "CacheFull", pos |-> pos]
DrawFailed(pos) == [kind |-> "DrawFailed", pos |-> pos]

\* history: a chunk the sweep evicted
Evictee(c) == [gridPos |-> c.gridPos, modified |-> c.modified]

\* the body of the deactivation loop with one fault seeded: "silent" discards
\* on a full cache without the warning, "always" caches unmodified chunks too,
\* "overwrite" stores over cache slot 1 when the cache is full, "stay" leaves
\* the chunk resident when the cache is full, "unflipped" caches the image as
\* read from the texture, without ImageFlipVertical, "last" scans the cache
\* from its last slot down
FaultyEvict(st, i, fault) ==
    LET c == st.chunks[i]
        free == FreeCacheSlots(st.cache)
        j == IF fault = "last" /\ free # {}
             THEN CHOOSE m \in free : \A n \in free : n <= m
             ELSE First(free)
        freed == [st.chunks EXCEPT ![i] = FreeChunk]
        entry == [active |-> TRUE, gridPos |-> c.gridPos,
                  image |-> IF fault = "unflipped" THEN LoadImageFromTexture(c.texture)
                            ELSE ImageFlipVertical(LoadImageFromTexture(c.texture))]
        gone == [st EXCEPT !.chunks = freed, !.evicted = st.evicted \cup {Evictee(c)},
                           !.log = Append(st.log, "evict")]
        warning == Append(st.out, CacheFull(c.gridPos))
    IN  IF ~c.modified /\ fault # "always"
        THEN gone
        ELSE IF j # NULL
        THEN [gone EXCEPT !.cache = [st.cache EXCEPT ![j] = entry]]
        ELSE IF fault = "silent" THEN gone
        ELSE IF fault = "overwrite"
        THEN [gone EXCEPT !.cache = [st.cache EXCEPT ![1] = entry], !.out = warning]
        ELSE IF fault = "stay" THEN [st EXCEPT !.out = warning]
        ELSE [gone EXCEPT !.out = warning]

Evict_DropsSilently(st, i) == FaultyEvict(st, i, "silent")
Evict_CachesUnmodified(st, i) == FaultyEvict(st, i, "always")
Evict_OverwritesCache(st, i) == FaultyEvict(st, i, "overwrite")
Evict_LeavesResident(st, i) == FaultyEvict(st, i, "stay")
Evict_Unflipped(st, i) == FaultyEvict(st, i, "unflipped")
Evict_ScansFromLast(st, i) == FaultyEvict(st, i, "last")

\* the body of the deactivation loop for an active chunk outside the window,
\* in pool slot i
EvictSlot(st, i) ==
    LET c == st.chunks[i]
        j == First(FreeCacheSlots(st.cache))
        freed == [st.chunks EXCEPT ![i] = FreeChunk]
        \* the slot is freed; evicted and log record it as history
        gone == [st EXCEPT !.chunks = freed, !.evicted = st.evicted \cup {Evictee(c)},
                           !.log = Append(st.log, "evict")]
    IN  IF ~c.modified
        THEN gone
        ELSE IF j # NULL
        THEN [gone EXCEPT !.cache = [st.cache EXCEPT ![j] =
                            [active |-> TRUE, gridPos |-> c.gridPos,
                             image |-> ImageFlipVertical(LoadImageFromTexture(c.texture))]]]
        ELSE [gone EXCEPT !.out = Append(st.out, CacheFull(c.gridPos))]

RECURSIVE EvictLoop(_, _, _)
EvictLoop(st, i, w) ==
    IF i > totalChunks THEN st
    ELSE IF st.chunks[i].active /\ Outside(st.chunks[i].gridPos, w)
    THEN EvictLoop(EvictSlot(st, i), i + 1, w)
    ELSE EvictLoop(st, i + 1, w)

\* the activation loops with `x < maxX` for `x <= maxX`
RECURSIVE WindowCells_ExclusiveMax(_, _, _)
WindowCells_ExclusiveMax(w, x, y) ==
    IF y > w.maxY THEN <<>>
    ELSE IF x >= w.maxX THEN WindowCells_ExclusiveMax(w, w.minX, y + 1)
    ELSE <<Vec(x, y)>> \o WindowCells_ExclusiveMax(w, x + 1, y)

\* the cells of the window in the order of the activation loops (y outer, x inner)
RECURSIVE WindowCells(_, _, _)
WindowCells(w, x, y) ==
    IF y > w.maxY THEN <<>>
    ELSE IF x > w.maxX THEN WindowCells(w, w.minX, y + 1)
    ELSE <<Vec(x, y)>> \o WindowCells(w, x + 1, y)

\* history: on entry to the activation loops, does an out-of-window chunk
\* occupy a pool slot (the loops neither free a slot nor activate such a chunk)
Entering(st, w) ==
    [st EXCEPT !.stale = \E i \in Slots :
                            st.chunks[i].active /\ Outside(st.chunks[i].gridPos, w)]

\* history: the activation of cell g is logged, and noted as early when an
\* out-of-window chunk still occupies a pool slot
Attempt(st, w, g) ==
    [st EXCEPT !.log = Append(st.log, "activate"),
               !.early = IF st.stale THEN st.early \cup {g} ELSE st.early]

\* the activation loops; the pointer GetAndActivateChunk returns is discarded
\* (nulls records, as history, the cells for which it was NULL)
RECURSIVE ActivateLoop(_, _, _, _)
ActivateLoop(st, w, cells, k) ==
    IF k > Len(cells) THEN st
    ELSE LET r == GetAndActivateChunk(st.chunks, st.cache, cells[k])
             at == Attempt(st, w, cells[k])
         IN  IF r.chunk = NULL
             THEN ActivateLoop([at EXCEPT !.nulls = st.nulls \cup {cells[k]}],
                               w, cells, k + 1)
             ELSE ActivateLoop([at EXCEPT !.chunks = r.chunks, !.cache = r.cache],
                               w, cells, k + 1)

SweepStart(ch, ca) ==
    [chunks |-> ch, cache |-> ca, out |-> <<>>, nulls |-> {}, evicted |-> {},
     log |-> <<>>, early |-> {}, stale |-> FALSE]

\* the state between the two phases of Canvas_Update
EvictPhase(ch, ca, view) == EvictLoop(SweepStart(ch, ca), 1, Window(view))

\* Canvas_Update with the two loops in the other order
Canvas_Update_ActivatesFirst(ch, ca, view) ==
    LET w == Window(view)
    IN  EvictLoop(ActivateLoop(Entering(SweepStart(ch, ca), w), w,
                               WindowCells(w, w.minX, w.minY), 1),
                  1, w)

Canvas_Update(ch, ca, view) ==
    LET w == Window(view)
    IN  ActivateLoop(Entering(EvictPhase(ch, ca, view), w), w,
                     WindowCells(w, w.minX, w.minY), 1)

(* ------------------------------ drawing -------------------------------- *)
\* the faulty variant that hands out the draw surface without marking the chunk
Canvas_BeginTextureMode_LeavesFlag(ch, ca, worldPos) ==
    LET r == GetAndActivateChunk(ch, ca, WorldToGrid(worldPos))
    IN  IF r.chunk # NULL
        THEN [chunks |-> r.chunks,
              cache |-> r.cache, chunk |-> r.chunk, ret |-> TRUE, out |-> <<>>,
              path |-> r.path]
        ELSE [chunks |-> r.chunks, cache |-> r.cache, chunk |-> NULL, ret |-> FALSE,
              out |-> <<DrawFailed(worldPos)>>, path |-> r.path]

Canvas_BeginTextureMode(ch, ca, worldPos) ==
    LET r == GetAndActivateChunk(ch, ca, WorldToGrid(worldPos))
    IN  IF r.chunk # NULL
        THEN [chunks |-> [r.chunks EXCEPT ![r.chunk].modified = TRUE],
              cache |-> r.cache, chunk |-> r.chunk, ret |-> TRUE, out |-> <<>>,
              path |-> r.path]
        ELSE [chunks |-> r.chunks, cache |-> r.cache, chunk |-> NULL, ret |-> FALSE,
              out |-> <<DrawFailed(worldPos)>>, path |-> r.path]

(* ------------------------------ undo/redo ------------------------------ *)
UndoChunkState(img, gridPos) == [beforeImage |-> img, gridPos |-> gridPos]

\* the faulty commit that leaves the redo stack as it is
Undo_EndAction_KeepsRedo(us) ==
    IF us.currentAction.isNull \/ Len(us.currentAction.chunkStates) = 0
    THEN [us EXCEPT !.currentAction = NullAction]
    ELSE LET kept == IF Len(us.undoStack) >= MAX_UNDO_ACTIONS
                     THEN Tail(us.undoStack)
                     ELSE us.undoStack
         IN  [undoStack |-> Append(kept, us.currentAction.chunkStates),
              redoStack |-> us.redoStack,
              currentAction |-> NullAction]

\* the faulty commit that makes room by dropping the most recent action
Undo_EndAction_DropsNewest(us) ==
    IF us.currentAction.isNull \/ Len(us.currentAction.chunkStates) = 0
    THEN [us EXCEPT !.currentAction = NullAction]
    ELSE LET kept == IF Len(us.undoStack) >= MAX_UNDO_ACTIONS
                     THEN SubSeq(us.undoStack, 1, Len(us.undoStack) - 1)
                     ELSE us.undoStack
         IN  [undoStack |-> Append(kept, us.currentAction.chunkStates),
              redoStack |-> <<>>,
              currentAction |-> NullAction]

\* the faulty Undo_EndAction that commits an action with no chunk like any other
Undo_EndAction_PushesEmpty(us) ==
    IF us.currentAction.isNull
    THEN [us EXCEPT !.currentAction = NullAction]
    ELSE LET kept == IF Len(us.undoStack) >= MAX_UNDO_ACTIONS
                     THEN Tail(us.undoStack)
                     ELSE us.undoStack
         IN  [undoStack |-> Append(kept, us.currentAction.chunkStates),
              redoStack |-> <<>>,
              currentAction |-> NullAction]

Undo_EndAction(us) ==
    IF us.currentAction.isNull \/ Len(us.currentAction.chunkStates) = 0
    THEN [us EXCEPT !.currentAction = NullAction]
    ELSE LET kept == IF Len(us.undoStack) >= MAX_UNDO_ACTIONS
                     THEN Tail(us.undoStack)
                     ELSE us.undoStack
         IN  [undoStack |-> Append(kept, us.currentAction.chunkStates),
              redoStack |-> <<>>,
              currentAction |-> NullAction]

\* the faulty begin that overwrites the open action without ending it
Undo_BeginAction_Overwrites(us) == [us EXCEPT !.currentAction = EmptyAction]

Undo_BeginAction(us) ==
    LET closed == IF ~us.currentAction.isNull THEN Undo_EndAction(us) ELSE us
    IN  [closed EXCEPT !.currentAction = EmptyAction]

\* the faulty capture that stores the texture's rows as they are read back,
\* without the vertical flip
Undo_AddChunkToCurrentAction_Unflipped(ch, ca, us, gridPos) ==
    LET cs == us.currentAction.chunkStates
        r == GetAndActivateChunk(ch, ca, gridPos)
        same == [chunks |-> ch, cache |-> ca, undoState |-> us, nulls |-> {}]
    IN  IF us.currentAction.isNull THEN same
        ELSE IF \E k \in DOMAIN cs : Vector2Equals(cs[k].gridPos, gridPos) THEN same
        ELSE IF r.chunk = NULL
        THEN [chunks |-> r.chunks, cache |-> r.cache, undoState |-> us, nulls |-> {gridPos}]
        ELSE [chunks |-> r.chunks, cache |-> r.cache,
              undoState |-> [us EXCEPT !.currentAction.chunkStates =
                    Append(cs, UndoChunkState(
                        LoadImageFromTexture(r.chunks[r.chunk].texture), gridPos))],
              nulls |-> {}]

\* the faulty capture that takes a fresh snapshot on every touch
Undo_AddChunkToCurrentAction_Recaptures(ch, ca, us, gridPos) ==
    LET cs == us.currentAction.chunkStates
        r == GetAndActivateChunk(ch, ca, gridPos)
        same == [chunks |-> ch, cache |-> ca, undoState |-> us, nulls |-> {}]
        fresh == UndoChunkState(
                    ImageFlipVertical(LoadImageFromTexture(r.chunks[r.chunk].texture)),
                    gridPos)
    IN  IF us.currentAction.isNull THEN same
        ELSE IF r.chunk = NULL
        THEN [chunks |-> r.chunks, cache |-> r.cache, undoState |-> us, nulls |-> {gridPos}]
        ELSE [chunks |-> r.chunks, cache |-> r.cache,
              undoState |-> [us EXCEPT !.currentAction.chunkStates =
                    IF \E k \in DOMAIN cs : Vector2Equals(cs[k].gridPos, gridPos)
                    THEN [k \in DOMAIN cs |->
                            IF Vector2Equals(cs[k].gridPos, gridPos) THEN fresh ELSE cs[k]]
                    ELSE Append(cs, fresh)],
              nulls |-> {}]

\* the faulty capture that activates the chunk before it looks for an open action
Undo_AddChunkToCurrentAction_ActivatesFirst(ch, ca, us, gridPos) ==
    LET cs == us.currentAction.chunkStates
        r == GetAndActivateChunk(ch, ca, gridPos)
        same == [chunks |-> ch, cache |-> ca, undoState |-> us, nulls |-> {}]
    IN  IF us.currentAction.isNull
        THEN [chunks |-> r.chunks, cache |-> r.cache, undoState |-> us, nulls |-> {}]
        ELSE IF \E k \in DOMAIN cs : Vector2Equals(cs[k].gridPos, gridPos) THEN same
        ELSE IF r.chunk = NULL
        THEN [chunks |-> r.chunks, cache |-> r.cache, undoState |-> us, nulls |-> {gridPos}]
        ELSE [chunks |-> r.chunks, cache |-> r.cache,
              undoState |-> [us EXCEPT !.currentAction.chunkStates =
                    Append(cs, UndoChunkState(
                        ImageFlipVertical(LoadImageFromTexture(r.chunks[r.chunk].texture)),
                        gridPos))],
              nulls |-> {}]

\* Undo_AddChunkToCurrentAction: the canvas and the log after the call, and the
\* cell whose activation returned NULL, if any
Undo_AddChunkToCurrentAction(ch, ca, us, gridPos) ==
    LET cs == us.currentAction.chunkStates
        r == GetAndActivateChunk(ch, ca, gridPos)
        same == [chunks |-> ch, cache |-> ca, undoState |-> us, nulls |-> {}]
    IN  IF us.currentAction.isNull THEN same
        ELSE IF \E k \in DOMAIN cs : Vector2Equals(cs[k].gridPos, gridPos) THEN same
        ELSE IF r.chunk = NULL
        THEN [chunks |-> r.chunks, cache |-> r.cache, undoState |-> us, nulls |-> {gridPos}]
        ELSE [chunks |-> r.chunks, cache |-> r.cache,
              undoState |-> [us EXCEPT !.currentAction.chunkStates =
                    Append(cs, UndoChunkState(
                        ImageFlipVertical(LoadImageFromTexture(r.chunks[r.chunk].texture)),
                        gridPos))],
              nulls |-> {}]

\* the faulty replay that overwrites the texture and leaves the modified flag
RECURSIVE ApplyUndoAction_KeepsFlag(_, _, _)
ApplyUndoAction_KeepsFlag(st, action, k) ==
    IF k > Len(action) THEN st
    ELSE LET r == GetAndActivateChunk(st.chunks, st.cache, action[k].gridPos)
         IN  IF r.chunk = NULL
             THEN ApplyUndoAction_KeepsFlag(
                    [st EXCEPT !.nulls = st.nulls \cup {action[k].gridPos}], action, k + 1)
             ELSE ApplyUndoAction_KeepsFlag(
                    [st EXCEPT !.chunks = [r.chunks EXCEPT
                                    ![r.chunk].texture = DrawTextureInto(action[k].beforeImage)],
                               !.cache = r.cache,
                               !.restored = st.restored \cup {action[k].gridPos}],
                    action, k + 1)

\* ApplyUndoAction, from chunk state k on
RECURSIVE ApplyUndoAction(_, _, _)
ApplyUndoAction(st, action, k) ==
    IF k > Len(action) THEN st
    ELSE LET r == GetAndActivateChunk(st.chunks, st.cache, action[k].gridPos)
         IN  IF r.chunk = NULL
             THEN ApplyUndoAction([st EXCEPT !.nulls = st.nulls \cup {action[k].gridPos}],
                                  action, k + 1)
             ELSE ApplyUndoAction(
                    [st EXCEPT !.chunks = [r.chunks EXCEPT
                                    ![r.chunk].texture = DrawTextureInto(action[k].beforeImage),
                                    ![r.chunk].modified = TRUE],
                               !.cache = r.cache,
                               !.restored = st.restored \cup {action[k].gridPos}],
                    action, k + 1)

\* the loop of Undo_PerformUndo / Undo_PerformRedo that captures the current
\* state of every chunk of the popped action; chunk->texture is read through
\* the pointer GetAndActivateChunk returned, NULL or not
RECURSIVE CaptureCurrent(_, _, _)
CaptureCurrent(st, action, k) ==
    IF k > Len(action) \/ st.crashed THEN st
    ELSE LET r == GetAndActivateChunk(st.chunks, st.cache, action[k].gridPos)
         IN  IF r.chunk = NULL
             THEN [st EXCEPT !.crashed = TRUE, !.nulls = st.nulls \cup {action[k].gridPos}]
             ELSE CaptureCurrent(
                    [st EXCEPT !.chunks = r.chunks, !.cache = r.cache,
                               !.fetched = IF r.path = "resident" THEN st.fetched
                                           ELSE st.fetched \cup {action[k].gridPos},
                               !.mirror = Append(st.mirror,
                                    UndoChunkState(
                                        ImageFlipVertical(LoadImageFromTexture(
                                            r.chunks[r.chunk].texture)),
                                        action[k].gridPos))],
                    action, k + 1)

ReplayStart(ch, ca) ==
    [chunks |-> ch, cache |-> ca, mirror |-> <<>>, crashed |-> FALSE, nulls |-> {},
     restored |-> {}, fetched |-> {}]

\* steps 2 and 3 of Undo_PerformUndo / Undo_PerformRedo on the popped action
Replay(ch, ca, action) ==
    LET cap == CaptureCurrent(ReplayStart(ch, ca), action, 1)
    IN  IF cap.crashed THEN cap ELSE ApplyUndoAction(cap, action, 1)

\* the faulty push that takes the stack for full one action early
PushMirror_FullAtOne(stack, mirror) ==
    IF Len(stack) < MAX_UNDO_ACTIONS - 1 THEN Append(stack, mirror) ELSE stack

\* step 4: the mirror action is pushed unless the stack is full
PushMirror(stack, mirror) ==
    IF Len(stack) < MAX_UNDO_ACTIONS THEN Append(stack, mirror) ELSE stack

Pop(stack) == SubSeq(stack, 1, Len(stack) - 1)
Top(stack) == stack[Len(stack)]

Done(r, us) ==
    [chunks |-> r.chunks, cache |-> r.cache, undoState |-> us, crashed |-> r.crashed,
     nulls |-> r.nulls, restored |-> r.restored, mirror |-> r.mirror,
     fetched |-> r.fetched]

\* the faulty undo that pushes a mirror action without its chunk states
Undo_PerformUndo_EmptyMirror(ch, ca, us) ==
    LET actionToUndo == Top(us.undoStack)
        popped == [us EXCEPT !.undoStack = Pop(us.undoStack)]
        r == Replay(ch, ca, actionToUndo)
    IN  IF Len(us.undoStack) = 0 THEN Done(ReplayStart(ch, ca), us)
        ELSE IF r.crashed THEN Done(r, popped)
        ELSE Done(r, [popped EXCEPT !.redoStack = PushMirror(us.redoStack, <<>>)])

\* the faulty undo that, finding the undo stack empty, still pushes a mirror
Undo_PerformUndo_NoGuard(ch, ca, us) ==
    LET actionToUndo == Top(us.undoStack)
        popped == [us EXCEPT !.undoStack = Pop(us.undoStack)]
        r == Replay(ch, ca, actionToUndo)
    IN  IF Len(us.undoStack) = 0
        THEN Done(ReplayStart(ch, ca),
                  [us EXCEPT !.redoStack = PushMirror(us.redoStack, <<>>)])
        ELSE IF r.crashed THEN Done(r, popped)
        ELSE Done(r, [popped EXCEPT !.redoStack = PushMirror(us.redoStack, r.mirror)])

Undo_PerformUndo(ch, ca, us) ==
    LET actionToUndo == Top(us.undoStack)
        popped == [us EXCEPT !.undoStack = Pop(us.undoStack)]
        r == Replay(ch, ca, actionToUndo)
    IN  IF Len(us.undoStack) = 0 THEN Done(ReplayStart(ch, ca), us)
        ELSE IF r.crashed THEN Done(r, popped)
        ELSE Done(r, [popped EXCEPT !.redoStack = PushMirror(us.redoStack, r.mirror)])

\* redo that restores the snapshots and pushes no mirror action
Undo_PerformRedo_NoMirror(ch, ca, us) ==
    LET actionToRedo == Top(us.redoStack)
        popped == [us EXCEPT !.redoStack = Pop(us.redoStack)]
        r == Replay(ch, ca, actionToRedo)
    IN  IF Len(us.redoStack) = 0 THEN Done(ReplayStart(ch, ca), us)
        ELSE Done(r, popped)

Undo_PerformRedo(ch, ca, us) ==
    LET actionToRedo == Top(us.redoStack)
        popped == [us EXCEPT !.redoStack = Pop(us.redoStack)]
        r == Replay(ch, ca, actionToRedo)
    IN  IF Len(us.redoStack) = 0 THEN Done(ReplayStart(ch, ca), us)
        ELSE IF r.crashed THEN Done(r, popped)
        ELSE Done(r, [popped EXCEPT !.undoStack = PushMirror(us.undoStack, r.mirror)])

(* ----------------------------- persistence ----------------------------- *)
Record(gridPos, pixels) == [gridPos |-> gridPos, pixels |-> pixels]

\* the records of the `for` loop over slots lo..hi that writes one record per
\* slot satisfying the loop's condition
\* the faulty loop that writes every resident chunk, modified or not
RECURSIVE PoolRecords_AnyResident(_, _)
PoolRecords_AnyResident(ch, i) ==
    IF i > totalChunks THEN <<>>
    ELSE (IF ch[i].active
          THEN <<Record(ch[i].gridPos,
                        ImageFlipVertical(LoadImageFromTexture(ch[i].texture)))>>
          ELSE <<>>) \o PoolRecords_AnyResident(ch, i + 1)

RECURSIVE PoolRecords(_, _)
PoolRecords(ch, i) ==
    IF i > totalChunks THEN <<>>
    ELSE (IF ch[i].active /\ ch[i].modified
          THEN <<Record(ch[i].gridPos,
                        ImageFlipVertical(LoadImageFromTexture(ch[i].texture)))>>
          ELSE <<>>) \o PoolRecords(ch, i + 1)

RECURSIVE CacheRecords(_, _)
CacheRecords(ca, j) ==
    IF j > cacheSize THEN <<>>
    ELSE (IF ca[j].active THEN <<Record(ca[j].gridPos, ca[j].image)>> ELSE <<>>)
            \o CacheRecords(ca, j + 1)

\* the file Canvas_Save writes
Canvas_Save(ch, ca) ==
    [exists |-> TRUE, magic |-> SAVE_FILE_MAGIC, version |-> SAVE_FILE_VERSION,
     records |-> PoolRecords(ch, 1) \o CacheRecords(ca, 1)]

LoadFails(file) ==
    ~file.exists \/ file.magic # SAVE_FILE_MAGIC \/ file.version # SAVE_FILE_VERSION

\* the cache after the read loop: record k goes to slot k, up to cacheSize
LoadedCache(records) ==
    [j \in CacheSlots |->
        IF j <= Len(records)
        THEN [active |-> TRUE, gridPos |-> records[j].gridPos, image |-> records[j].pixels]
        ELSE FreeCached]

\* the faulty load that clears the canvas before it verifies the header
Canvas_Load_ClearsFirst(ch, ca, us, file) ==
    IF ~file.exists
    THEN [chunks |-> ch, cache |-> ca, undoState |-> us, ok |-> FALSE]
    ELSE IF LoadFails(file)
    THEN [chunks |-> [i \in Slots |-> FreeChunk],
          cache |-> [j \in CacheSlots |-> FreeCached],
          undoState |-> NoUndoState, ok |-> FALSE]
    ELSE [chunks |-> [i \in Slots |-> FreeChunk],
          cache |-> LoadedCache(file.records),
          undoState |-> NoUndoState, ok |-> TRUE]

\* the faulty load that leaves the resident chunks in the pool
Canvas_Load_KeepsPool(ch, ca, us, file) ==
    IF LoadFails(file)
    THEN [chunks |-> ch, cache |-> ca, undoState |-> us, ok |-> FALSE]
    ELSE [chunks |-> ch,
          cache |-> LoadedCache(file.records),
          undoState |-> NoUndoState, ok |-> TRUE]

Canvas_Load(ch, ca, us, file) ==
    IF LoadFails(file)
    THEN [chunks |-> ch, cache |-> ca, undoState |-> us, ok |-> FALSE]
    ELSE [chunks |-> [i \in Slots |-> FreeChunk],
          cache |-> LoadedCache(file.records),
          undoState |-> NoUndoState, ok |-> TRUE]

(* ------------------------------ history -------------------------------- *)
BlankImage == [r \in Rows |-> RAYWHITE]
\* the content of cell g as an activation would show it: its pool texture, else
\* its cached image, else the blank background
Observed(ch, ca, g) ==
    IF ActiveAt(ch, g) # {} THEN Snapshot(ch[Min(ActiveAt(ch, g))].texture)
    ELSE IF CachedAt(ca, g) # {} THEN ca[Min(CachedAt(ca, g))].image
    ELSE BlankImage

NoContent == [g \in {} |-> Unloaded]
NoHist == [open |-> NoContent, undo |-> <<>>, redo |-> <<>>, undone |-> {},
           loaded |-> NoContent]

\* Undo_EndAction pushes the open action
Commits(us) == ~us.currentAction.isNull /\ Len(us.currentAction.chunkStates) > 0

\* hist.undo and hist.redo run parallel to the two stacks: the entry of an
\* action holds, per cell of the action, the content the cell had when the
\* gesture first touched it (pre), the content it had when the gesture was
\* committed (done) and the content it had when the gesture was last undone
\* (post), and the cells whose content a sweep dropped with a cache-full warning
\* while the action was on a stack (lost); hist.open holds pre for the open
\* action
HistEnd(h, ch, ca, us) ==
    IF Commits(us)
    THEN [h EXCEPT
            !.open = NoContent,
            !.undo = Append(IF Len(h.undo) >= MAX_UNDO_ACTIONS THEN Tail(h.undo) ELSE h.undo,
                            [pre |-> h.open,
                             done |-> [g \in DOMAIN h.open |-> Observed(ch, ca, g)],
                             post |-> NoContent, lost |-> {}]),
            !.redo = <<>>]
    ELSE [h EXCEPT !.open = NoContent]

HistBegin(h, ch, ca, us) ==
    IF ~us.currentAction.isNull THEN HistEnd(h, ch, ca, us)
    ELSE [h EXCEPT !.open = NoContent]

HistTouch(h, ch, ca, us, after, g) ==
    IF Len(after.currentAction.chunkStates) > Len(us.currentAction.chunkStates)
    THEN [h EXCEPT !.open = (g :> Observed(ch, ca, g)) @@ h.open]
    ELSE h

HistUndo(h, ch, ca, returned) ==
    IF h.undo = <<>> THEN h
    ELSE LET e == Top(h.undo)
             m == [e EXCEPT !.post = [g \in DOMAIN e.pre |-> Observed(ch, ca, g)]]
         IN  [h EXCEPT !.undo = Pop(h.undo),
                       !.redo = IF returned THEN PushMirror(h.redo, m) ELSE h.redo]

HistRedo(h, returned) ==
    IF h.redo = <<>> THEN h
    ELSE [h EXCEPT !.redo = Pop(h.redo),
                   !.undo = IF returned THEN PushMirror(h.undo, Top(h.redo)) ELSE h.undo]

\* hist.undone: the cells whose present content an undo or redo wrote
HistRestored(h, cells) == [h EXCEPT !.undone = h.undone \cup cells]
HistDrawn(h, g) == [h EXCEPT !.undone = h.undone \ {g}]

\* a sweep dropped the content of `cells`
HistLoss(h, cells) ==
    LET Mark(e) == [e EXCEPT !.lost = e.lost \cup (cells \cap DOMAIN e.pre)]
    IN  [h EXCEPT !.undo = [k \in DOMAIN h.undo |-> Mark(h.undo[k])],
                  !.redo = [k \in DOMAIN h.redo |-> Mark(h.redo[k])]]

\* hist.loaded: the records the read loop of the last successful Canvas_Load
\* stored (the first cacheSize records of the file), pixels per coordinate
HistLoaded(records) ==
    LET n == Min({Len(records), cacheSize})
    IN  [NoHist EXCEPT !.loaded =
            [g \in {records[k].gridPos : k \in 1..n} |->
                records[Min({k \in 1..n : records[k].gridPos = g})].pixels]]

\* what Undo_AddChunkToCurrentAction found for cell g in the open action
Touch(us, nulls, g) ==
    IF \E k \in DOMAIN us.currentAction.chunkStates :
            Vector2Equals(us.currentAction.chunkStates[k].gridPos, g)
    THEN "again"
    ELSE IF g \in nulls THEN "skipped" ELSE "first"

\* what Undo_EndAction did with the open action
Ended(us) ==
    IF us.currentAction.isNull THEN "idle" ELSE IF Commits(us) THEN "commit" ELSE "empty"
Produced(l, g, img) == (g :> img) @@ l
WarnedCells(o) == {o[k].pos : k \in {n \in DOMAIN o : o[n].kind = "CacheFull"}}

(* ------------------------------ actions -------------------------------- *)
CallVia(op, arg, ret, nulls, path, evicted) ==
    [op |-> op, arg |-> arg, ret |-> ret, nulls |-> nulls, path |-> path,
     evicted |-> evicted, log |-> <<>>, early |-> {}, fetched |-> {},
     fresh |-> FALSE, released |-> 0, dropped |-> 0, drawn |-> {}, uncaptured |-> {}]
Call(op, arg, ret, nulls) == CallVia(op, arg, ret, nulls, "", {})

\* a frame's Canvas_Update(&canvas, camera, w, h)
Update(view) ==
    /\ ~crashed
    /\ \E r \in {Canvas_Update(chunks, cache, view)} :
           /\ chunks' = r.chunks
           /\ cache' = r.cache
           /\ out' = r.out
           /\ last' = [CallVia("Canvas_Update", view, TRUE, r.nulls, "", r.evicted)
                            EXCEPT !.log = r.log, !.early = r.early]
           /\ warned' = warned \cup WarnedCells(r.out)
           /\ hist' = HistLoss(hist, WarnedCells(r.out))
    /\ UNCHANGED <<undoState, disk, crashed, latest>>

\* GetAndActivateChunk(canvas, gridPos), the pointer handed to the caller
Activate(g) ==
    /\ ~crashed
    /\ \E r \in {GetAndActivateChunk(chunks, cache, g)} :
           /\ chunks' = r.chunks
           /\ cache' = r.cache
           /\ last' = CallVia("GetAndActivateChunk", g, r.chunk,
                              IF r.chunk = NULL THEN {g} ELSE {}, r.path, {})
    /\ out' = <<>>
    /\ UNCHANGED <<undoState, disk, crashed, latest, warned, hist>>

\* if (Canvas_BeginTextureMode(canvas, p)) { Draw...(local, color); Canvas_EndTextureMode(); }
Draw(worldPos, color) ==
    /\ ~crashed
    /\ \E b \in {Canvas_BeginTextureMode(chunks, cache, worldPos)} :
       LET g == WorldToGrid(worldPos)
           localPos == GetLocalChunkPos(worldPos, g)
           tex == DrawAtRow(b.chunks[b.chunk].texture, localPos.y, color)
       IN  /\ cache' = b.cache
           /\ out' = b.out
           /\ last' = CallVia("Canvas_BeginTextureMode", worldPos, b.ret,
                              IF b.ret THEN {} ELSE {g}, b.path, {})
           /\ IF b.ret
              THEN /\ chunks' = [b.chunks EXCEPT ![b.chunk].texture = tex]
                   /\ latest' = Produced(latest, g, Snapshot(tex))
                   /\ warned' = warned \ {g}
              ELSE /\ chunks' = b.chunks
                   /\ UNCHANGED <<latest, warned>>
           /\ hist' = IF b.ret THEN HistDrawn(hist, g) ELSE hist
    /\ UNCHANGED <<undoState, disk, crashed>>

\* history of a call that ends the open action: what became of it, how many
\* redo actions were released and how many undo actions were dropped for room
Closed(op, us) ==
    [CallVia(op, NoCell, TRUE, {}, Ended(us), {}) EXCEPT
        !.released = IF Commits(us) THEN Len(us.redoStack) ELSE 0,
        !.dropped = IF Commits(us) /\ Len(us.undoStack) >= MAX_UNDO_ACTIONS THEN 1 ELSE 0]

\* Undo_BeginAction(&canvas->undoState)
BeginAction ==
    /\ ~crashed
    /\ undoState' = Undo_BeginAction(undoState)
    /\ last' = Closed("Undo_BeginAction", undoState)
    /\ hist' = HistBegin(hist, chunks, cache, undoState)
    /\ out' = <<>>
    /\ UNCHANGED <<chunks, cache, disk, crashed, latest, warned>>

\* Undo_AddChunkToCurrentAction(canvas, &canvas->undoState, g)
AddChunk(g) ==
    /\ ~crashed
    /\ \E r \in {Undo_AddChunkToCurrentAction(chunks, cache, undoState, g)} :
           /\ chunks' = r.chunks
           /\ cache' = r.cache
           /\ undoState' = r.undoState
           /\ last' = Call("Undo_AddChunkToCurrentAction", g, TRUE, r.nulls)
           /\ hist' = HistTouch(hist, chunks, cache, undoState, r.undoState, g)
    /\ out' = <<>>
    /\ UNCHANGED <<disk, crashed, latest, warned>>

\* Undo_EndAction(&canvas->undoState)
EndAction ==
    /\ ~crashed
    /\ undoState' = Undo_EndAction(undoState)
    /\ last' = Closed("Undo_EndAction", undoState)
    /\ hist' = HistEnd(hist, chunks, cache, undoState)
    /\ out' = <<>>
    /\ UNCHANGED <<chunks, cache, disk, crashed, latest, warned>>

\* one iteration of the brush loops of HandleToolAndDrawing while the button is
\* down (the action opened on the press is open): capture the chunk, then draw
BrushStroke(worldPos, color) ==
    /\ ~crashed
    /\ ~undoState.currentAction.isNull
    /\ \E a \in {Undo_AddChunkToCurrentAction(chunks, cache, undoState,
                                                 WorldToGrid(worldPos))} :
       \E b \in {Canvas_BeginTextureMode(a.chunks, a.cache, worldPos)} :
       LET g == WorldToGrid(worldPos)
           localPos == GetLocalChunkPos(worldPos, g)
           tex == DrawAtRow(b.chunks[b.chunk].texture, localPos.y, color)
       IN  /\ undoState' = a.undoState
           /\ hist' = LET h == HistTouch(hist, chunks, cache, undoState, a.undoState, g)
                      IN  IF b.ret THEN HistDrawn(h, g) ELSE h
           /\ cache' = b.cache
           /\ out' = b.out
           /\ last' = CallVia("BrushStroke", worldPos, b.ret,
                              a.nulls \cup (IF b.ret THEN {} ELSE {g}),
                              Touch(undoState, a.nulls, g), {})
           /\ IF b.ret
              THEN /\ chunks' = [b.chunks EXCEPT ![b.chunk].texture = tex]
                   /\ latest' = Produced(latest, g, Snapshot(tex))
                   /\ warned' = warned \ {g}
              ELSE /\ chunks' = b.chunks
                   /\ UNCHANGED <<latest, warned>>
    /\ UNCHANGED <<disk, crashed>>

\* the history of the content a replay wrote
Restored(l, ch, cells) ==
    [g \in (DOMAIN l) \cup cells |->
        IF g \in cells THEN Snapshot(ch[Min(ActiveAt(ch, g))].texture) ELSE l[g]]

Replayed(op, r) ==
    /\ chunks' = r.chunks
    /\ cache' = r.cache
    /\ undoState' = r.undoState
    /\ crashed' = r.crashed
    /\ last' = [Call(op, NoCell, ~r.crashed, r.nulls) EXCEPT !.fetched = r.fetched]
    /\ out' = <<>>
    /\ latest' = Restored(latest, r.chunks, r.restored)
    /\ warned' = warned \ r.restored
    /\ UNCHANGED disk

\* Ctrl+Z
PerformUndo ==
    /\ ~crashed
    /\ \E r \in {Undo_PerformUndo(chunks, cache, undoState)} :
           /\ Replayed("Undo_PerformUndo", r)
           /\ hist' = HistRestored(HistUndo(hist, chunks, cache, ~r.crashed), r.restored)

\* Ctrl+Y
PerformRedo ==
    /\ ~crashed
    /\ \E r \in {Undo_PerformRedo(chunks, cache, undoState)} :
           /\ Replayed("Undo_PerformRedo", r)
           /\ hist' = HistRestored(HistRedo(hist, ~r.crashed), r.restored)

\* Ctrl+S; canOpen: whether fopen(path, "wb") succeeds
\* history: the last call loaded the file that the call before it had saved
Reloaded == last.op = "Canvas_Load" /\ last.path = "ok" /\ last.fresh
\* history: the last call saved the canvas to the file
Saved == last.op = "Canvas_Save" /\ last.ret = TRUE

Save(canOpen) ==
    /\ ~crashed
    /\ disk' = IF canOpen THEN Canvas_Save(chunks, cache) ELSE disk
    /\ last' = [Call("Canvas_Save", NoCell, canOpen, {}) EXCEPT
                    !.fresh = canOpen /\ Reloaded]
    /\ out' = IF canOpen THEN <<>> ELSE <<[kind |-> "SaveError", pos |-> NoCell]>>
    /\ UNCHANGED <<chunks, cache, undoState, crashed, latest, warned, hist>>

\* the files a load can find at its path: the save file, or a file that is not
\* a canvas (wrong magic) or of another format version
FilesAt ==
    {disk,
     [exists |-> TRUE, magic |-> SAVE_FILE_MAGIC + 1, version |-> SAVE_FILE_VERSION,
      records |-> disk.records],
     [exists |-> TRUE, magic |-> SAVE_FILE_MAGIC, version |-> SAVE_FILE_VERSION + 1,
      records |-> disk.records]}

\* history: which check of Canvas_Load the file met
LoadOutcome(file) ==
    IF ~file.exists THEN "open"
    ELSE IF file.magic # SAVE_FILE_MAGIC THEN "magic"
    ELSE IF file.version # SAVE_FILE_VERSION THEN "version"
    ELSE "ok"

\* Ctrl+L
Load(file) ==
    /\ ~crashed
    /\ \E r \in {Canvas_Load(chunks, cache, undoState, file)} :
           /\ chunks' = r.chunks
           /\ cache' = r.cache
           /\ undoState' = r.undoState
           /\ last' = [CallVia("Canvas_Load", NoCell, r.ok, {}, LoadOutcome(file), {})
                            EXCEPT !.fresh = Saved]
           /\ out' = IF r.ok THEN <<>> ELSE <<[kind |-> "LoadError", pos |-> NoCell]>>
           /\ latest' = IF r.ok THEN [g \in {} |-> Unloaded] ELSE latest
           /\ warned' = IF r.ok THEN {} ELSE warned
           /\ hist' = IF r.ok THEN HistLoaded(file.records) ELSE hist
    /\ UNCHANGED <<disk, crashed>>

\* any call of the canvas and undo modules, in any order
AnyCall ==
    \/ \E view \in Views : Update(view)
    \/ \E g \in Cells : Activate(g)
    \/ \E p \in DrawPositions, c \in Colors : Draw(p, c)
    \/ BeginAction
    \/ \E g \in Cells : AddChunk(g)
    \/ EndAction
    \/ PerformUndo
    \/ PerformRedo
    \/ \E canOpen \in BOOLEAN : Save(canOpen)
    \/ \E file \in FilesAt : Load(file)

Next ==
    /\ steps < MaxSteps
    /\ steps' = steps + 1
    /\ AnyCall
    /\ UNCHANGED ui

\* the pool, the cache and drawing alone
PoolCall ==
    \/ \E view \in Views : Update(view)
    \/ \E g \in Cells : Activate(g)
    \/ \E p \in DrawPositions, c \in Colors : Draw(p, c)

NextPool == PoolCall /\ UNCHANGED <<steps, ui>>

SpecPool == Init /\ [][NextPool]_vars

\* Ctrl+Z / Ctrl+Y pressed between gestures
IdleUndo == undoState.currentAction.isNull /\ PerformUndo
IdleRedo == undoState.currentAction.isNull /\ PerformRedo

\* brush gestures (press, strokes, release), undo and redo between gestures,
\* and the frame's sweep
GestureCall ==
    \/ \E view \in Views : Update(view)
    \/ BeginAction
    \/ \E p \in DrawPositions, c \in BrushColors : BrushStroke(p, c)
    \/ EndAction
    \/ IdleUndo
    \/ IdleRedo

NextUndo ==
    /\ steps < MaxGesture
    /\ GestureCall
    /\ steps' = steps + 1
    /\ UNCHANGED ui

SpecUndo == Init /\ [][NextUndo]_vars

\* the pool, the cache and drawing with a cache of FirstFitCache slots and one
\* more cell drawn on than the cache has slots, so that an insertion has free
\* slots to choose from, finds a free slot below an active one, and finds none
InitCache ==
    /\ chunks = [i \in Slots |-> FreeChunk]
    /\ cache = [j \in 1..FirstFitCache |-> FreeCached]
    /\ undoState = NoUndoState
    /\ disk = NoFile
    /\ out = <<>>
    /\ last = Call("Canvas_Create", NoCell, TRUE, {})
    /\ crashed = FALSE
    /\ latest = NoContent
    /\ warned = {}
    /\ hist = NoHist
    /\ steps = 0
    /\ ui = UiStart

CacheCall ==
    \/ \E view \in Views : Update(view)
    \/ \E g \in CacheCells : Activate(g)
    \/ \E p \in CachePositions, c \in Colors : Draw(p, c)

NextCache ==
    /\ steps < MaxCacheSteps
    /\ CacheCall
    /\ steps' = steps + 1
    /\ UNCHANGED ui

SpecCache == InitCache /\ [][NextCache]_vars

\* the coordinate arithmetic of one chunk of a brush or text loop, for a world
\* position drawn from WorldPositions: the position is mapped to its chunk, the
\* chunk's origin is mapped back by Canvas_BeginTextureMode, and the position is
\* made local to the chunk
InitGrid ==
    /\ Canvas_Create
    /\ disk = NoFile
    /\ out = <<>>
    /\ \E worldPos \in WorldPositions : last = Call("mouseWorldPos", worldPos, NoCell, {})
    /\ crashed = FALSE
    /\ latest = NoContent
    /\ warned = {}
    /\ hist = NoHist
    /\ steps = 0
    /\ ui = UiStart

Computed(op, arg, ret) ==
    /\ last' = Call(op, arg, ret, {})
    /\ UNCHANGED <<chunks, cache, undoState, disk, out, crashed, latest, warned, hist, steps,
                   ui>>

MapToGrid ==
    /\ last.op = "mouseWorldPos"
    /\ Computed("WorldToGrid", last.arg, WorldToGrid(last.arg))

MapOrigin ==
    /\ last.op = "WorldToGrid"
    /\ Computed("ChunkOrigin", last.ret, WorldToGrid(ChunkOrigin(last.ret)))

MapToLocal ==
    /\ last.op = "WorldToGrid"
    /\ Computed("GetLocalChunkPos", [worldPos |-> last.arg, gridPos |-> last.ret],
                GetLocalChunkPos(last.arg, last.ret))

NextGrid == MapToGrid \/ MapOrigin \/ MapToLocal

SpecGrid == InitGrid /\ [][NextGrid]_vars

Spec == Init /\ [][Next]_vars

(* --------------------------- tools and gestures ------------------------ *)
\* the value of an expression, evaluated once: the element of a singleton
Only(S) == CHOOSE x \in S : TRUE

\* fminf / fmaxf
Least(a, b) == IF a <= b THEN a ELSE b
Greatest(a, b) == IF a >= b THEN a ELSE b

\* the chunks under the rectangle spanned by two world positions, in the order
\* of the brush and text loops (y outer, x inner); the brush radius and the
\* measured text size are below one pixel of the scaled-down chunk
BoxCells(p, q) ==
    LET minGrid == WorldToGrid(Vec(Least(p.x, q.x), Least(p.y, q.y)))
        maxGrid == WorldToGrid(Vec(Greatest(p.x, q.x), Greatest(p.y, q.y)))
        w == [minX |-> minGrid.x, minY |-> minGrid.y,
              maxX |-> maxGrid.x, maxY |-> maxGrid.y]
    IN  WindowCells(w, w.minX, w.minY)

\* the canvas and its histories on entry to HandleToolAndDrawing; drawn and
\* uncaptured record, as history, the chunks the frame drew on and those of
\* them the undo log held no before-snapshot of at the time of the draw
ToolStart(ch, ca, us, h, l, wd) ==
    [chunks |-> ch, cache |-> ca, undoState |-> us, hist |-> h, latest |-> l,
     warned |-> wd, out |-> <<>>, nulls |-> {}, drawn |-> {}, uncaptured |-> {}]

HoldsSnapshot(chunkStates, g) ==
    \E k \in DOMAIN chunkStates : Vector2Equals(chunkStates[k].gridPos, g)

\* if (Canvas_BeginTextureMode(canvas, (Vector2){x * CHUNK_SIZE, y * CHUNK_SIZE}))
\* { draw at GetLocalChunkPos(worldPos, g); Canvas_EndTextureMode(); }
DrawOn(st, g, worldPos, color, held) ==
    LET b == Canvas_BeginTextureMode(st.chunks, st.cache, ChunkOrigin(g))
        tex == DrawAtRow(b.chunks[b.chunk].texture, GetLocalChunkPos(worldPos, g).y, color)
    IN  IF b.ret
        THEN [st EXCEPT !.chunks = [b.chunks EXCEPT ![b.chunk].texture = tex],
                        !.cache = b.cache,
                        !.hist = HistDrawn(st.hist, g),
                        !.latest = Produced(st.latest, g, Snapshot(tex)),
                        !.warned = st.warned \ {g},
                        !.drawn = st.drawn \cup {g},
                        !.uncaptured = IF held THEN st.uncaptured
                                       ELSE st.uncaptured \cup {g}]
        ELSE [st EXCEPT !.chunks = b.chunks, !.cache = b.cache,
                        !.out = st.out \o b.out, !.nulls = st.nulls \cup {g}]

\* Undo_AddChunkToCurrentAction(canvas, &canvas->undoState, g)
Capture(st, g) ==
    LET a == Undo_AddChunkToCurrentAction(st.chunks, st.cache, st.undoState, g)
    IN  [st EXCEPT !.chunks = a.chunks, !.cache = a.cache, !.undoState = a.undoState,
                   !.hist = HistTouch(st.hist, st.chunks, st.cache, st.undoState,
                                      a.undoState, g),
                   !.nulls = st.nulls \cup a.nulls]

Began(st) ==
    [st EXCEPT !.undoState = Undo_BeginAction(st.undoState),
               !.hist = HistBegin(st.hist, st.chunks, st.cache, st.undoState)]

Sealed(st) ==
    [st EXCEPT !.undoState = Undo_EndAction(st.undoState),
               !.hist = HistEnd(st.hist, st.chunks, st.cache, st.undoState)]

\* the body of the brush loops of HandleToolAndDrawing for the chunk g: capture
\* the chunk, then draw on it
BrushBody(st, g, worldPos, color) ==
    LET a == Undo_AddChunkToCurrentAction(st.chunks, st.cache, st.undoState, g)
        b == Canvas_BeginTextureMode(a.chunks, a.cache, ChunkOrigin(g))
        tex == DrawAtRow(b.chunks[b.chunk].texture, GetLocalChunkPos(worldPos, g).y, color)
        h == HistTouch(st.hist, st.chunks, st.cache, st.undoState, a.undoState, g)
        held == /\ ~a.undoState.currentAction.isNull
                /\ HoldsSnapshot(a.undoState.currentAction.chunkStates, g)
    IN  IF b.ret
        THEN [st EXCEPT !.chunks = [b.chunks EXCEPT ![b.chunk].texture = tex],
                        !.cache = b.cache,
                        !.undoState = a.undoState,
                        !.hist = HistDrawn(h, g),
                        !.latest = Produced(st.latest, g, Snapshot(tex)),
                        !.warned = st.warned \ {g},
                        !.nulls = st.nulls \cup a.nulls,
                        !.drawn = st.drawn \cup {g},
                        !.uncaptured = IF held THEN st.uncaptured
                                       ELSE st.uncaptured \cup {g}]
        ELSE [st EXCEPT !.chunks = b.chunks, !.cache = b.cache,
                        !.undoState = a.undoState, !.hist = h,
                        !.out = st.out \o b.out,
                        !.nulls = st.nulls \cup a.nulls \cup {g}]

RECURSIVE BrushLoop(_, _, _, _, _)
BrushLoop(st, cells, k, worldPos, color) ==
    IF k > Len(cells) THEN st
    ELSE BrushLoop(BrushBody(st, cells[k], worldPos, color), cells, k + 1, worldPos, color)

\* the first loops of StampText
RECURSIVE CaptureLoop(_, _, _)
CaptureLoop(st, cells, k) ==
    IF k > Len(cells) THEN st
    ELSE CaptureLoop(Capture(st, cells[k]), cells, k + 1)

\* the second loops of StampText; sealed: the chunk states of the action that
\* was opened and ended for this stamp
RECURSIVE StampLoop(_, _, _, _, _, _)
StampLoop(st, cells, k, worldPos, color, sealed) ==
    IF k > Len(cells) THEN st
    ELSE StampLoop(DrawOn(st, cells[k], worldPos, color, HoldsSnapshot(sealed, cells[k])),
                   cells, k + 1, worldPos, color, sealed)

\* the chunk states of the action that Undo_EndAction is about to push
SealedStates(us) ==
    IF Commits(us) THEN us.currentAction.chunkStates ELSE <<>>

StampText(st, textWorldPos, color) ==
    LET cells == BoxCells(textWorldPos, textWorldPos)
    IN  Only({StampLoop(ended.st, cells, 1, textWorldPos, color, ended.sealed) :
                ended \in {[st |-> Sealed(captured),
                            sealed |-> SealedStates(captured.undoState)] :
                    captured \in {CaptureLoop(opened, cells, 1) :
                        opened \in {Began(st)}}}})

\* what one frame sees: the left button, whether the pointer is over the colour
\* picker, the key (or right button) pressed, the pointer's world position and
\* the current colour
FrameKeys ==
    {"none", "KEY_B", "KEY_T", "KEY_ENTER", "KEY_ESCAPE", "MOUSE_BUTTON_RIGHT"}
FrameInputs ==
    [left : BOOLEAN, overUI : BOOLEAN, key : FrameKeys, mouseWorldPos : DrawPositions,
     color : Colors]

\* HandleToolAndDrawing: the canvas, the tool state and the branch taken
HandleToolAndDrawing(st, u, in) ==
    LET pressed == in.left /\ ~u.leftDown
        released == ~in.left /\ u.leftDown
        interacting == IF released THEN FALSE
                       ELSE IF pressed /\ in.overUI THEN TRUE
                       ELSE u.isInteractingWithUI
        tool == IF u.textActive THEN u.currentTool
                ELSE IF in.key = "KEY_T" THEN "TOOL_TEXT"
                ELSE IF in.key = "KEY_B" THEN "TOOL_BRUSH"
                ELSE u.currentTool
        seen == [u EXCEPT !.leftDown = in.left, !.isInteractingWithUI = interacting,
                          !.currentTool = tool]
        from == IF pressed THEN in.mouseWorldPos ELSE u.lastMousePos
        opened == IF pressed THEN Began(st) ELSE st
        stroked == IF in.left
                   THEN Only({BrushLoop(s, BoxCells(from, in.mouseWorldPos), 1,
                                        in.mouseWorldPos, in.color) : s \in {opened}})
                   ELSE opened
        stampAndSwitch == \/ in.key \in {"KEY_ENTER", "KEY_ESCAPE", "MOUSE_BUTTON_RIGHT"}
                          \/ pressed /\ ~in.overUI /\ ~interacting
    IN  IF tool = "TOOL_BRUSH" /\ ~interacting
        THEN [st |-> Only({IF released THEN Sealed(s) ELSE s : s \in {stroked}}),
              ui |-> [seen EXCEPT !.lastMousePos =
                            IF in.left THEN in.mouseWorldPos ELSE u.lastMousePos],
              path |-> IF in.left THEN "brush" ELSE IF released THEN "release" ELSE "idle"]
        ELSE IF tool = "TOOL_TEXT" /\ u.textActive /\ stampAndSwitch
        THEN [st |-> IF in.key = "KEY_ENTER" \/ pressed
                     THEN StampText(st, u.textPosition, in.color) ELSE st,
              ui |-> [seen EXCEPT !.textActive = FALSE, !.currentTool = "TOOL_BRUSH"],
              path |-> IF in.key = "KEY_ENTER" \/ pressed THEN "stamp" ELSE "cancel"]
        ELSE IF tool = "TOOL_TEXT" /\ u.textActive
        THEN [st |-> st, ui |-> seen, path |-> "typing"]
        ELSE IF tool = "TOOL_TEXT" /\ pressed /\ ~interacting
        THEN [st |-> st,
              ui |-> [seen EXCEPT !.textActive = TRUE, !.textPosition = in.mouseWorldPos],
              path |-> "place"]
        ELSE [st |-> st, ui |-> seen, path |-> "idle"]

\* a frame's HandleToolAndDrawing(&canvas, camera, &currentTool, ...)
ToolFrame(in) ==
    /\ ~crashed
    /\ \E r \in {HandleToolAndDrawing(
                    ToolStart(chunks, cache, undoState, hist, latest, warned), ui, in)} :
           /\ chunks' = r.st.chunks
           /\ cache' = r.st.cache
           /\ undoState' = r.st.undoState
           /\ hist' = r.st.hist
           /\ latest' = r.st.latest
           /\ warned' = r.st.warned
           /\ out' = r.st.out
           /\ ui' = r.ui
           /\ last' = [CallVia("HandleToolAndDrawing", in.mouseWorldPos, TRUE,
                               r.st.nulls, r.path, {})
                            EXCEPT !.drawn = r.st.drawn, !.uncaptured = r.st.uncaptured]
    /\ UNCHANGED <<disk, crashed>>

\* the calls of main's frame loop: the sweep, the tools, Ctrl+S, Ctrl+L, Ctrl+Z
\* and Ctrl+Y
FrameCall ==
    \/ \E view \in Views : Update(view) /\ UNCHANGED ui
    \/ \E in \in FrameInputs : ToolFrame(in)
    \/ \E canOpen \in BOOLEAN : Save(canOpen) /\ UNCHANGED ui
    \/ \E file \in FilesAt : Load(file) /\ UNCHANGED ui
    \/ PerformUndo /\ UNCHANGED ui
    \/ PerformRedo /\ UNCHANGED ui

NextFrame ==
    /\ steps < MaxFrames
    /\ FrameCall
    /\ steps' = steps + 1

SpecFrame == Init /\ [][NextFrame]_vars

(* ------------------------------ properties ----------------------------- *)
ActiveSlots(ch) == {i \in DOMAIN ch : ch[i].active}
ActiveCacheSlots(ca) == {j \in DOMAIN ca : ca[j].active}
HeldCells ==
    {chunks[i].gridPos : i \in ActiveSlots(chunks)}
        \cup {cache[j].gridPos : j \in ActiveCacheSlots(cache)}
\* cell g is resident with the content img (as a snapshot would show it)
InPool(ch, g, img) == \E i \in ActiveAt(ch, g) : Snapshot(ch[i].texture) = img
\* cell g is cached with the content img
InCache(ca, g, img) == \E j \in CachedAt(ca, g) : ca[j].image = img
Printed(o, msg) == \E k \in DOMAIN o : o[k] = msg
WindowSet(w) == {Vec(x, y) : x \in w.minX..w.maxX, y \in w.minY..w.maxY}

\* pool slot i is evicted by a sweep of window w
IsEvictee(i, w) == chunks[i].active /\ Outside(chunks[i].gridPos, w)
\* the modified chunks the sweep evicts before it reaches slot i
ModifiedBefore(i, w) == {k \in Slots : k < i /\ IsEvictee(k, w) /\ chunks[k].modified}
\* the cache still has a free slot when the sweep reaches slot i
FreeAt(i, w) ==
    Cardinality(FreeCacheSlots(cache)) > Cardinality(ModifiedBefore(i, w))

C2_NoSilentLoss ==
    \A g \in DOMAIN latest :
        InPool(chunks, g, latest[g]) \/ InCache(cache, g, latest[g]) \/ g \in warned

\* one drawn cell was lost with a warning while another drawn cell is still held
C2_Witness ==
    /\ \E g \in DOMAIN latest :
          g \in warned /\ ActiveAt(chunks, g) = {} /\ CachedAt(cache, g) = {}
    /\ \E g \in DOMAIN latest : InPool(chunks, g, latest[g]) /\ latest[g] # BlankImage

\* C3: a chunk a sweep evicts while the cache has a free slot is in the cache
\* afterwards, with its coordinate and content, iff it was modified; the sweep
\* adds no cache entry other than its modified evictees
C3_EvictionMigratesIffModified ==
    [][last'.op = "Canvas_Update" =>
        LET w == Window(last'.arg)
        IN  /\ \A i \in Slots :
                  IsEvictee(i, w) /\ FreeAt(i, w) =>
                      IF chunks[i].modified
                      THEN InCache(cache', chunks[i].gridPos, Snapshot(chunks[i].texture))
                      ELSE CachedAt(cache', chunks[i].gridPos) = {}
            /\ \A j \in ActiveCacheSlots(cache') :
                  \/ cache'[j] = cache[j]
                  \/ \E i \in Slots :
                        /\ IsEvictee(i, w) /\ chunks[i].modified
                        /\ cache'[j].gridPos = chunks[i].gridPos
                        /\ cache'[j].image = Snapshot(chunks[i].texture)]_vars

\* a sweep has evicted a modified chunk into the cache and discarded an
\* unmodified one
C3_Witness ==
    /\ last.op = "Canvas_Update"
    /\ \E e \in last.evicted : e.modified /\ CachedAt(cache, e.gridPos) # {}
    /\ \E e \in last.evicted : ~e.modified /\ CachedAt(cache, e.gridPos) = {}

\* C4: a modified chunk evicted while every cache slot is taken is named by a
\* data-loss warning, leaves the pool, does not enter the cache and displaces
\* no cache entry; the sweep still evicts every other out-of-window chunk and
\* runs its activation phase over the whole window
C4_CapacityDataLoss ==
    [][last'.op = "Canvas_Update" =>
        LET w == Window(last'.arg)
        IN  \A i \in Slots :
                IsEvictee(i, w) /\ chunks[i].modified /\ ~FreeAt(i, w) =>
                    /\ Printed(out', CacheFull(chunks[i].gridPos))
                    /\ ActiveAt(chunks', chunks[i].gridPos) = {}
                    /\ CachedAt(cache', chunks[i].gridPos) = {}
                    /\ \A j \in ActiveCacheSlots(cache) :
                          \/ cache'[j] = cache[j]
                          \/ /\ ~Outside(cache[j].gridPos, w)
                             /\ ~cache'[j].active
                             /\ InPool(chunks', cache[j].gridPos, cache[j].image)
                    /\ \A k \in ActiveSlots(chunks') : ~Outside(chunks'[k].gridPos, w)
                    /\ \A g \in WindowSet(w) :
                          ActiveAt(chunks', g) # {} \/ g \in last'.nulls]_vars

\* a sweep has printed the data-loss warning
C4_Witness ==
    /\ last.op = "Canvas_Update"
    /\ \E k \in DOMAIN out : out[k].kind = "CacheFull"

\* C5: activating a cell that is not resident but cached, with a free pool
\* slot, makes it resident with the cached content and modified = true, and
\* removes exactly that entry from the cache
C5_HydrationFromCache ==
    [][last'.op = "GetAndActivateChunk" =>
        LET g == last'.arg
        IN  (ActiveAt(chunks, g) = {} /\ InactiveSlots(chunks) # {}
                /\ CachedAt(cache, g) # {}) =>
            /\ \E i \in ActiveAt(chunks', g) :
                  /\ last'.ret = i
                  /\ chunks'[i].modified
                  /\ \A j \in CachedAt(cache, g) :
                        Snapshot(chunks'[i].texture) = cache[j].image
            /\ CachedAt(cache', g) = {}
            /\ Cardinality(ActiveCacheSlots(cache'))
                  = Cardinality(ActiveCacheSlots(cache)) - 1
            /\ \A j \in CacheSlots \ CachedAt(cache, g) : cache'[j] = cache[j]]_vars

\* an activation has taken a drawn chunk from the cache
C5_Witness ==
    /\ last.op = "GetAndActivateChunk"
    /\ last.path = "cache"
    /\ Snapshot(chunks[last.ret].texture) # BlankImage

\* C6: activating a cell that is neither resident nor cached, with a free pool
\* slot, makes it resident with the blank background and modified = false, and
\* leaves the cache as it was
C6_BlankCreation ==
    [][last'.op = "GetAndActivateChunk" =>
        LET g == last'.arg
        IN  (ActiveAt(chunks, g) = {} /\ InactiveSlots(chunks) # {}
                /\ CachedAt(cache, g) = {}) =>
            /\ \E i \in ActiveAt(chunks', g) :
                  /\ last'.ret = i
                  /\ ~chunks'[i].modified
                  /\ Snapshot(chunks'[i].texture) = BlankImage
            /\ cache' = cache]_vars

\* an activation has created a blank chunk in a pool that holds other chunks
C6_Witness ==
    /\ last.op = "GetAndActivateChunk"
    /\ last.path = "blank"
    /\ Cardinality(ActiveSlots(chunks)) > 1

\* C7: activating a resident cell returns its slot and changes neither the
\* pool nor the cache
C7_FastPathNoOp ==
    [][last'.op = "GetAndActivateChunk" =>
        (ActiveAt(chunks, last'.arg) # {} =>
            /\ last'.ret \in ActiveAt(chunks, last'.arg)
            /\ chunks' = chunks
            /\ cache' = cache)]_vars

\* an activation has returned a resident, modified chunk
C7_Witness ==
    /\ last.op = "GetAndActivateChunk"
    /\ last.path = "resident"
    /\ chunks[last.ret].modified

\* C8: with every pool slot active and the cell not resident, activation
\* returns NULL and Canvas_BeginTextureMode returns false; neither changes the
\* pool or the cache
C8_SaturationFailsCleanly ==
    [][/\ last'.op = "GetAndActivateChunk" =>
            ((ActiveAt(chunks, last'.arg) = {} /\ InactiveSlots(chunks) = {}) =>
                last'.ret = NULL /\ chunks' = chunks /\ cache' = cache)
       /\ last'.op = "Canvas_BeginTextureMode" =>
            ((ActiveAt(chunks, WorldToGrid(last'.arg)) = {} /\ InactiveSlots(chunks) = {}) =>
                last'.ret = FALSE /\ chunks' = chunks /\ cache' = cache)]_vars

\* an activation has failed on a saturated pool while the cell sits in the cache
C8_Witness ==
    /\ last.op = "GetAndActivateChunk"
    /\ last.ret = NULL
    /\ InactiveSlots(chunks) = {}
    /\ CachedAt(cache, last.arg) # {}

\* C9: every activation that returned NULL in the last call was handed to the
\* caller or named by a printed warning
C9_SaturationSurfaced ==
    \A g \in last.nulls :
        \/ last.op = "GetAndActivateChunk"
        \/ \E k \in DOMAIN out :
              out[k].kind = "DrawFailed" /\ WorldToGrid(out[k].pos) = g

\* C10: right after a sweep every active pool slot lies inside its padded window
C10_SweepEvictsOutside ==
    last.op = "Canvas_Update" =>
        \A i \in ActiveSlots(chunks) : ~Outside(chunks[i].gridPos, Window(last.arg))

\* a sweep has evicted chunks with the cache full
C10_Witness ==
    /\ last.op = "Canvas_Update"
    /\ last.evicted # {}
    /\ \E k \in DOMAIN out : out[k].kind = "CacheFull"
    /\ \E e \in last.evicted : ~e.modified

\* C11: right after a sweep whose padded window has at most as many cells as
\* the pool has slots, every cell of the window is resident in exactly one slot
C11_SweepMakesWindowResident ==
    last.op = "Canvas_Update" =>
        LET cells == WindowSet(Window(last.arg))
        IN  Cardinality(cells) <= totalChunks =>
                \A g \in cells : Cardinality(ActiveAt(chunks, g)) = 1

\* a sweep has found every pool slot taken by an out-of-window chunk and has
\* made its whole window resident
C11_Witness ==
    /\ last.op = "Canvas_Update"
    /\ Cardinality(last.evicted) = totalChunks
    /\ Cardinality(WindowSet(Window(last.arg))) <= totalChunks
    /\ \A g \in WindowSet(Window(last.arg)) : ActiveAt(chunks, g) # {}

\* C12: within one sweep every eviction comes before the first activation, and
\* no activation is attempted while an out-of-window chunk is still resident
C12_SweepOrdering ==
    last.op = "Canvas_Update" =>
        /\ \A a, b \in DOMAIN last.log :
              (last.log[a] = "activate" /\ last.log[b] = "evict") => b < a
        /\ last.early = {}

\* a sweep has evicted chunks, one of them into the cache, and has activated
\* cells of its window
C12_Witness ==
    /\ last.op = "Canvas_Update"
    /\ \E b \in DOMAIN last.log : last.log[b] = "evict"
    /\ \E a \in DOMAIN last.log : last.log[a] = "activate"
    /\ \E e \in last.evicted : e.modified /\ CachedAt(cache, e.gridPos) # {}

\* C13: a successful Canvas_BeginTextureMode leaves the target chunk modified,
\* and no call (lookup, draw, capture, undo, redo, save) turns the modified flag
\* of a chunk off while the chunk stays resident in its slot
C13_ModifiedSticky ==
    [][/\ \A i \in Slots :
            (/\ chunks[i].active /\ chunks[i].modified
             /\ chunks'[i].active /\ chunks'[i].gridPos = chunks[i].gridPos)
                => chunks'[i].modified
       /\ (last'.op = "Canvas_BeginTextureMode" /\ last'.ret = TRUE) =>
            /\ ActiveAt(chunks', WorldToGrid(last'.arg)) # {}
            /\ \A i \in ActiveAt(chunks', WorldToGrid(last'.arg)) : chunks'[i].modified
      ]_vars

\* an undo has put the blank content back into a resident chunk, which is still
\* marked modified
C13_Witness ==
    /\ last.op = "Undo_PerformUndo"
    /\ last.ret = TRUE
    /\ \E i \in Slots :
         /\ chunks[i].active /\ chunks[i].modified
         /\ Snapshot(chunks[i].texture) = BlankImage
         /\ chunks[i].gridPos \in DOMAIN latest

\* the cells an action of a stack holds a snapshot of
ActionCells(action) == {action[k].gridPos : k \in DOMAIN action}

\* C14: an undo that returns leaves every cell of the undone gesture with the
\* content it had before the gesture first drew on it, wherever the chunk was
\* kept in between (pool, cache, or dropped), and changes no other cell
C14_UndoInverse ==
    [][(/\ last'.op = "Undo_PerformUndo" /\ last'.ret = TRUE
        /\ undoState.undoStack # <<>>) =>
            LET e == Top(hist.undo)
            IN  /\ ActionCells(Top(undoState.undoStack)) = DOMAIN e.pre
                /\ \A g \in DOMAIN e.pre : Observed(chunks', cache', g) = e.pre[g]
                /\ \A g \in Cells \ DOMAIN e.pre :
                        Observed(chunks', cache', g) = Observed(chunks, cache, g)
      ]_vars

\* a gesture that changed a cell has been undone after the cell had left the
\* pool, and the cell shows its content of before the gesture, which is not blank
C14_Witness ==
    /\ last.op = "Undo_PerformUndo" /\ last.ret = TRUE
    /\ hist.redo # <<>>
    /\ LET e == Top(hist.redo)
       IN  \E g \in DOMAIN e.pre :
                /\ e.pre[g] # e.done[g]
                /\ e.pre[g] # BlankImage
                /\ Observed(chunks, cache, g) = e.pre[g]
                /\ g \in last.fetched

\* C15: a redo that returns leaves every cell of the redone gesture with the
\* content it had when the gesture was undone, which is the content the gesture
\* left unless a sweep dropped it in between; and it puts an action on top of
\* the undo stack that holds, for the cells of the gesture, the content of
\* before the gesture, so that undoing it undoes the gesture again
C15_RedoInverse ==
    [][(/\ last'.op = "Undo_PerformRedo" /\ last'.ret = TRUE
        /\ undoState.redoStack # <<>>) =>
            LET e == Top(hist.redo)
                m == Top(undoState'.undoStack)
            IN  /\ ActionCells(Top(undoState.redoStack)) = DOMAIN e.pre
                /\ \A g \in DOMAIN e.pre :
                        /\ Observed(chunks', cache', g) = e.post[g]
                        /\ g \notin e.lost => Observed(chunks', cache', g) = e.done[g]
                /\ \A g \in Cells \ DOMAIN e.pre :
                        Observed(chunks', cache', g) = Observed(chunks, cache, g)
                /\ Len(undoState'.undoStack) = Len(undoState.undoStack) + 1
                /\ ActionCells(m) = DOMAIN e.pre
                /\ \A k \in DOMAIN m :
                        m[k].gridPos \notin e.lost => m[k].beforeImage = e.pre[m[k].gridPos]
      ]_vars

\* a gesture that changed a cell has been undone and redone: the cell shows what
\* the gesture left, and the top of the undo stack holds what was there before
C15_Witness ==
    /\ last.op = "Undo_PerformRedo" /\ last.ret = TRUE
    /\ hist.undo # <<>>
    /\ LET e == Top(hist.undo)
       IN  /\ e.post # NoContent
           /\ \E g \in DOMAIN e.pre :
                /\ e.pre[g] # e.done[g]
                /\ g \notin e.lost
                /\ Observed(chunks, cache, g) = e.done[g]
                /\ \E k \in DOMAIN Top(undoState.undoStack) :
                      /\ Top(undoState.undoStack)[k].gridPos = g
                      /\ Top(undoState.undoStack)[k].beforeImage = e.pre[g]

\* C16: a call that commits a gesture (one that captured a chunk) leaves the
\* redo stack empty, whatever was pending on it; and a redo on an empty redo
\* stack changes no chunk, no cache entry and no stack
C16_RedoInvalidation ==
    [][/\ (last'.op \in {"Undo_EndAction", "Undo_BeginAction"} /\ last'.path = "commit")
            => undoState'.redoStack = <<>>
       /\ (last'.op = "Undo_PerformRedo" /\ undoState.redoStack = <<>>)
            => /\ chunks' = chunks /\ cache' = cache /\ undoState' = undoState
               /\ last'.ret = TRUE
      ]_vars

\* Undo_EndAction has committed a gesture made after an undo, releasing the
\* pending redo action
C16_Witness ==
    /\ last.op = "Undo_EndAction" /\ last.path = "commit"
    /\ last.released > 0
    /\ undoState.redoStack = <<>>
    /\ undoState.undoStack # <<>>

\* the snapshots of a stack action are those the history entry e expects
Undoes(action, e) ==
    /\ ActionCells(action) = DOMAIN e.pre
    /\ \A k \in DOMAIN action : action[k].beforeImage = e.pre[action[k].gridPos]

\* C17: the undo stack never holds more than MAX_UNDO_ACTIONS actions; a commit
\* on a full stack drops the oldest action only, keeps the others in order and
\* puts the new action on top; an undo removes the most recent action and
\* leaves the older ones in place
C17_BoundedHistory ==
    [][/\ Len(undoState'.undoStack) <= MAX_UNDO_ACTIONS
       /\ (last'.op \in {"Undo_EndAction", "Undo_BeginAction"} /\ last'.path = "commit") =>
            LET old == undoState.undoStack
                new == undoState'.undoStack
                drop == IF Len(old) = MAX_UNDO_ACTIONS THEN 1 ELSE 0
            IN  /\ Len(new) = Len(old) + 1 - drop
                /\ last'.dropped = drop
                /\ \A k \in 1..(Len(new) - 1) : new[k] = old[k + drop]
                /\ new[Len(new)] = undoState.currentAction.chunkStates
                /\ Undoes(new[Len(new)], [pre |-> hist.open])
       /\ (last'.op = "Undo_PerformUndo" /\ undoState.undoStack # <<>>) =>
            LET old == undoState.undoStack
                new == undoState'.undoStack
            IN  /\ Len(new) = Len(old) - 1
                /\ \A k \in 1..Len(new) : new[k] = old[k]
                /\ Undoes(old[Len(old)], hist.undo[Len(hist.undo)])
      ]_vars

\* a commit on a full undo stack: the oldest action is gone, and the stack holds
\* the two most recent gestures, which changed different content
C17_Witness ==
    /\ last.op = "Undo_EndAction" /\ last.path = "commit"
    /\ last.dropped = 1
    /\ Len(undoState.undoStack) = MAX_UNDO_ACTIONS
    /\ undoState.undoStack[1] # undoState.undoStack[MAX_UNDO_ACTIONS]
    /\ \A k \in DOMAIN undoState.undoStack : Undoes(undoState.undoStack[k], hist.undo[k])

\* C18: within an open action, the first stroke on a cell appends one snapshot,
\* the content the cell had before that stroke drew on it; a later stroke on
\* the cell leaves the action as it is, although the cell has been drawn on
\* since; so every snapshot of the open action is the content of before the
\* gesture's first draw on its cell
C18_FirstTouchCapture ==
    [][last'.op = "BrushStroke" =>
            LET g == WorldToGrid(last'.arg)
                cs == undoState.currentAction.chunkStates
                after == undoState'.currentAction.chunkStates
            IN  /\ last'.path = "again" => after = cs
                /\ last'.path = "first" =>
                        after = Append(cs, UndoChunkState(Observed(chunks, cache, g), g))
                /\ Undoes(after, [pre |-> hist'.open])
      ]_vars

\* a second stroke on a cell of the open action: the snapshot is still the one
\* taken before the first stroke, and the cell no longer shows it
C18_Witness ==
    /\ last.op = "BrushStroke" /\ last.path = "again" /\ last.ret = TRUE
    /\ LET g == WorldToGrid(last.arg)
           cs == undoState.currentAction.chunkStates
       IN  \E k \in DOMAIN cs :
                /\ cs[k].gridPos = g
                /\ cs[k].beforeImage = hist.open[g]
                /\ cs[k].beforeImage # Observed(chunks, cache, g)
                /\ cs[k].beforeImage # BlankImage

\* C19: Undo_EndAction on an open action that captured no chunk pushes nothing:
\* the undo stack and the redo stack are as they were, no action is open
\* afterwards, and pool and cache are untouched
C19_EmptyGestureDiscarded ==
    [][(last'.op = "Undo_EndAction" /\ last'.path = "empty") =>
            /\ undoState'.undoStack = undoState.undoStack
            /\ undoState'.redoStack = undoState.redoStack
            /\ undoState'.currentAction.isNull
            /\ chunks' = chunks /\ cache' = cache
      ]_vars

\* an empty gesture has been closed while a redo action was pending, and the
\* redo action is still there
C19_Witness ==
    /\ last.op = "Undo_EndAction" /\ last.path = "empty"
    /\ undoState.redoStack # <<>>
    /\ undoState.currentAction.isNull

\* C20: an undo on a non-empty undo stack that returns takes one action off
\* the undo stack and puts one on the redo stack, above the ones already there:
\* the mirror action, which holds, for exactly the cells of the popped action,
\* the content each cell had immediately before the undo
C20_UndoRetainsMirror ==
    [][(/\ last'.op = "Undo_PerformUndo" /\ last'.ret = TRUE
        /\ undoState.undoStack # <<>>) =>
            LET popped == Top(undoState.undoStack)
                old == undoState.redoStack
                new == undoState'.redoStack
            IN  /\ Len(undoState'.undoStack) = Len(undoState.undoStack) - 1
                /\ Len(new) = Len(old) + 1
                /\ \A k \in DOMAIN old : new[k] = old[k]
                /\ Len(new[Len(new)]) = Len(popped)
                /\ \A k \in DOMAIN popped :
                        /\ new[Len(new)][k].gridPos = popped[k].gridPos
                        /\ new[Len(new)][k].beforeImage =
                                Observed(chunks, cache, popped[k].gridPos)
      ]_vars

\* the undo stack has been undone down to nothing: the redo stack holds as many
\* mirror actions as the undo stack could hold, the last one not blank
C20_Witness ==
    /\ last.op = "Undo_PerformUndo" /\ last.ret = TRUE
    /\ undoState.undoStack = <<>>
    /\ Len(undoState.redoStack) = MAX_UNDO_ACTIONS
    /\ \E k \in DOMAIN Top(undoState.redoStack) :
            Top(undoState.redoStack)[k].beforeImage # BlankImage

\* C21: an undo or a redo never reads through a pointer that a failed
\* activation returned; it returns, and when an activation failed it has left
\* the pool, the cache and both stacks as they were
C21_UndoRedoComplete ==
    [][last'.op \in {"Undo_PerformUndo", "Undo_PerformRedo"} =>
            /\ ~crashed'
            /\ last'.ret = TRUE
            /\ last'.nulls # {} =>
                    (chunks' = chunks /\ cache' = cache /\ undoState' = undoState)
      ]_vars

\* the action an undo or redo step replays
Replaying ==
    IF last'.op = "Undo_PerformUndo" THEN undoState.undoStack ELSE undoState.redoStack

\* C22: an undo or redo that returns leaves every chunk it overwrote resident,
\* marked modified and showing the snapshot; and from then on, until the cell
\* is drawn on again, that content is held by the cell's pool slot or by a
\* cache slot (so a sweep that evicts the chunk moves it to the cache and a
\* later activation brings it back), unless a cache-full warning named the cell
C22_UndoneSurvivesEviction ==
    [][/\ (/\ last'.op \in {"Undo_PerformUndo", "Undo_PerformRedo"}
           /\ last'.ret = TRUE /\ Replaying # <<>>) =>
                \A k \in DOMAIN Top(Replaying) :
                    LET c == Top(Replaying)[k]
                    IN  /\ c.gridPos \in hist'.undone
                        /\ \E i \in ActiveAt(chunks', c.gridPos) :
                              /\ chunks'[i].modified
                              /\ Snapshot(chunks'[i].texture) = c.beforeImage
                        /\ latest'[c.gridPos] = c.beforeImage
       /\ \A g \in hist'.undone :
              \/ g \in warned'
              \/ \E i \in ActiveAt(chunks', g) :
                    chunks'[i].modified /\ Snapshot(chunks'[i].texture) = latest'[g]
              \/ InCache(cache', g, latest'[g])
      ]_vars

\* a sweep has evicted a chunk an undo had overwritten: the cache holds the
\* restored content, which is not blank
C22_Witness ==
    /\ last.op = "Canvas_Update"
    /\ \E g \in hist.undone :
          /\ g \in {e.gridPos : e \in last.evicted}
          /\ latest[g] # BlankImage
          /\ InCache(cache, g, latest[g])
          /\ ActiveAt(chunks, g) = {}

\* C23: an undo on an empty undo stack and a redo on an empty redo stack return
\* at once: pool (contents and modified flags), cache, both stacks and the open
\* action are as they were
C23_EmptyStackNoOp ==
    [][/\ (last'.op = "Undo_PerformUndo" /\ undoState.undoStack = <<>>) =>
            /\ chunks' = chunks /\ cache' = cache /\ undoState' = undoState
            /\ ~crashed' /\ last'.nulls = {}
       /\ (last'.op = "Undo_PerformRedo" /\ undoState.redoStack = <<>>) =>
            /\ chunks' = chunks /\ cache' = cache /\ undoState' = undoState
            /\ ~crashed' /\ last'.nulls = {}
      ]_vars

\* an undo has returned on a canvas with a drawn chunk and nothing to undo or
\* redo (had there been an action to undo, the redo stack would now hold it)
C23_Witness ==
    /\ last.op = "Undo_PerformUndo" /\ last.ret = TRUE
    /\ undoState.undoStack = <<>> /\ undoState.redoStack = <<>>
    /\ \E i \in Slots : chunks[i].active /\ chunks[i].modified

\* C24: Undo_AddChunkToCurrentAction called while no action is open takes no
\* snapshot and activates no chunk: pool, cache, both stacks and the (absent)
\* open action are as they were
C24_CaptureWithoutAction ==
    [][(last'.op = "Undo_AddChunkToCurrentAction" /\ undoState.currentAction.isNull) =>
            /\ chunks' = chunks /\ cache' = cache /\ undoState' = undoState
            /\ last'.nulls = {}
      ]_vars

\* a capture was asked, with no action open, for a cell that is cached and not
\* resident: the cell is still in the cache only
C24_Witness ==
    /\ last.op = "Undo_AddChunkToCurrentAction"
    /\ undoState.currentAction.isNull
    /\ ActiveAt(chunks, last.arg) = {}
    /\ CachedAt(cache, last.arg) # {}

\* C25: Undo_BeginAction always leaves exactly one open action, with no chunk
\* state; if an action was open, it was ended first: with a captured chunk it
\* is on top of the undo stack with all its snapshots (the oldest action
\* dropped if the stack was full) and the redo stack is empty, with none the
\* stacks are as they were; if no action was open the stacks are as they were
C25_BeginClosesOpenAction ==
    [][last'.op = "Undo_BeginAction" =>
            LET cur == undoState.currentAction
                old == undoState.undoStack
                new == undoState'.undoStack
            IN  /\ ~undoState'.currentAction.isNull
                /\ undoState'.currentAction.chunkStates = <<>>
                /\ IF ~cur.isNull /\ cur.chunkStates # <<>>
                   THEN /\ Len(new) = Min({Len(old) + 1, MAX_UNDO_ACTIONS})
                        /\ new[Len(new)] = cur.chunkStates
                        /\ SubSeq(new, 1, Len(new) - 1)
                                = SubSeq(old, Len(old) + 2 - Len(new), Len(old))
                        /\ undoState'.redoStack = <<>>
                        /\ last'.path = "commit"
                   ELSE /\ new = old
                        /\ undoState'.redoStack = undoState.redoStack
      ]_vars

\* Undo_BeginAction has closed an action that had captured a chunk: its
\* snapshot is on the undo stack and a fresh action is open
C25_Witness ==
    /\ last.op = "Undo_BeginAction" /\ last.path = "commit"
    /\ undoState.currentAction = EmptyAction
    /\ undoState.undoStack # <<>>
    /\ Top(undoState.undoStack) # <<>>
    /\ Undoes(Top(undoState.undoStack), Top(hist.undo))

\* C26: a Canvas_Load that cannot open the file, or finds another magic number
\* or another version in the header, fails with an error message and leaves
\* the pool (contents and modified flags), the cache, both stacks and the open
\* action exactly as they were
C26_FailedLoadMutatesNothing ==
    [][(last'.op = "Canvas_Load" /\ last'.path # "ok") =>
            /\ chunks' = chunks /\ cache' = cache /\ undoState' = undoState
            /\ last'.ret = FALSE
            /\ Printed(out', [kind |-> "LoadError", pos |-> NoCell])
      ]_vars

\* a load has met a file with a foreign magic number on a canvas with a drawn
\* chunk and an action to undo, which are still there
C26_Witness ==
    /\ last.op = "Canvas_Load" /\ last.path = "magic"
    /\ \E i \in Slots : chunks[i].active /\ chunks[i].modified
    /\ undoState.undoStack # <<>>

\* the (coordinate, pixels) pairs the active cache slots hold
CacheContent(ca) ==
    {Record(ca[j].gridPos, ca[j].image) : j \in ActiveCacheSlots(ca)}

\* C27: after a Canvas_Load that succeeded no pool slot is active, the cache
\* holds the first cacheSize records of the file, one per slot in file order,
\* and nothing else, and there is nothing to undo, to redo or open
C27_LoadResets ==
    [][(last'.op = "Canvas_Load" /\ last'.path = "ok") =>
            LET n == Min({Len(disk.records), cacheSize})
            IN  /\ last'.ret = TRUE
                /\ ActiveSlots(chunks') = {}
                /\ ActiveCacheSlots(cache') = 1..n
                /\ \A k \in 1..n : Record(cache'[k].gridPos, cache'[k].image) = disk.records[k]
                /\ undoState'.undoStack = <<>>
                /\ undoState'.redoStack = <<>>
                /\ undoState'.currentAction.isNull
      ]_vars

\* a load has replaced a canvas by the one saved before: the pool is empty and
\* the cache holds the saved chunk, which is not blank
C27_Witness ==
    /\ last.op = "Canvas_Load" /\ last.path = "ok"
    /\ ActiveSlots(chunks) = {}
    /\ disk.records # <<>>
    /\ CacheContent(cache) = {disk.records[1]}
    /\ disk.records[1].pixels # BlankImage

\* C28: a load of a file with more records than the cache has slots stores the
\* first cacheSize records, and reports the records it drops as data loss
C28_LoadOverflowReported ==
    (/\ last.op = "Canvas_Load" /\ last.path = "ok"
     /\ Len(disk.records) > cacheSize) =>
        /\ CacheContent(cache) = {disk.records[k] : k \in 1..cacheSize}
        /\ out # <<>>

\* the (coordinate, pixels) records of a file, as a set
RecordSet(file) == {file.records[k] : k \in DOMAIN file.records}

\* a save that follows the load of the file the canvas had just been saved to
Resaved == Reloaded /\ last'.op = "Canvas_Save" /\ last'.ret = TRUE

\* C29: save, load, save again writes the records of the first save (same
\* coordinates, same pixels, none twice), from every canvas state
C29_SaveLoadIdempotent ==
    [][Resaved =>
            /\ RecordSet(disk') = RecordSet(disk)
            /\ Len(disk'.records) = Len(disk.records)
      ]_vars

\* what holds of C29: save, load, save again writes the records of the first
\* save provided the first save wrote no more records than the cache has slots
SaveLoadIdempotentWithinCache ==
    [][(Resaved /\ Len(disk.records) <= cacheSize) =>
            /\ RecordSet(disk') = RecordSet(disk)
            /\ Len(disk'.records) = Len(disk.records)
      ]_vars

\* a canvas with a drawn chunk has been saved, loaded and saved again: the file
\* holds the chunk, which the load had put into the cache
ResavedDrawnChunk ==
    /\ last.op = "Canvas_Save" /\ last.fresh
    /\ disk.records # <<>>
    /\ RecordSet(disk) = CacheContent(cache)
    /\ \E k \in DOMAIN disk.records : disk.records[k].pixels # BlankImage

\* the pool slots Canvas_Save is to write
ModifiedSlots(ch) == {i \in ActiveSlots(ch) : ch[i].modified}

\* C30: the file Canvas_Save writes has the header and then one record per
\* active and modified pool slot, in slot order, with the chunk's coordinate
\* and content, followed by one record per active cache slot, in slot order,
\* with the entry's coordinate and image; nothing is written for unmodified or
\* inactive slots and no coordinate is written twice
C30_SaveWritesModifiedSet ==
    [][(last'.op = "Canvas_Save" /\ last'.ret = TRUE) =>
            LET recs == disk'.records
                n == Cardinality(ModifiedSlots(chunks))
                m == Cardinality(ActiveCacheSlots(cache))
                \* the slot whose record is the k-th of its loop
                Nth(S, k) == CHOOSE i \in S : Cardinality({j \in S : j < i}) = k - 1
            IN  /\ disk'.exists
                /\ disk'.magic = SAVE_FILE_MAGIC /\ disk'.version = SAVE_FILE_VERSION
                /\ Len(recs) = n + m
                /\ \A k \in 1..n :
                        LET c == chunks[Nth(ModifiedSlots(chunks), k)]
                        IN  recs[k] = Record(c.gridPos, Snapshot(c.texture))
                /\ \A k \in 1..m :
                        LET e == cache[Nth(ActiveCacheSlots(cache), k)]
                        IN  recs[n + k] = Record(e.gridPos, e.image)
                /\ Cardinality({recs[k].gridPos : k \in DOMAIN recs}) = Len(recs)
                /\ chunks' = chunks /\ cache' = cache
      ]_vars

\* a save of a canvas with a modified resident chunk, unmodified resident
\* chunks and a cached chunk: the file has two records
C30_Witness ==
    /\ last.op = "Canvas_Save" /\ last.ret = TRUE
    /\ Cardinality(ModifiedSlots(chunks)) = 1
    /\ ActiveSlots(chunks) \ ModifiedSlots(chunks) # {}
    /\ ActiveCacheSlots(cache) # {}
    /\ Len(disk.records) = 2
    /\ disk.records[1].gridPos # disk.records[2].gridPos
    /\ disk.records[2] \in CacheContent(cache)

\* the call recorded in l, made on the undo state us, reached the free-slot
\* paths of GetAndActivateChunk for cell g (g was not resident, a pool slot was
\* free)
Hydrates(l, us, g) ==
    \/ l.op = "Canvas_Update" /\ g \in WindowSet(Window(l.arg)) /\ g \notin l.nulls
    \/ l.op = "GetAndActivateChunk" /\ l.arg = g /\ l.ret # NULL
    \/ l.op = "Canvas_BeginTextureMode" /\ WorldToGrid(l.arg) = g /\ l.ret
    \/ l.op = "Undo_AddChunkToCurrentAction" /\ l.arg = g
            /\ ~us.currentAction.isNull /\ Touch(us, l.nulls, g) = "first"
    \/ l.op \in {"Undo_PerformUndo", "Undo_PerformRedo"} /\ g \in l.fetched

\* the content of a chunk hydrated from the image px, as the call recorded in l
\* leaves it: a draw adds its primitive to the hydrated texture
HydratedFrom(l, g, px) ==
    IF l.op = "Canvas_BeginTextureMode"
    THEN {Snapshot(DrawAtRow(DrawTextureInto(px), GetLocalChunkPos(l.arg, g).y, c)) :
            c \in Colors}
    ELSE {px}

\* C31: a record (g, pixels) stored by a successful load is in the cache with
\* these pixels right after the load, and stays there unchanged over every
\* call that does not activate g with a free pool slot; the first call that
\* does (a sweep, a draw, or a direct activation) makes g resident with exactly
\* the loaded pixels and modified = true and removes g from the cache
C31_LazyRehydration ==
    [][IF last'.op = "Canvas_Load" /\ last'.path = "ok"
       THEN \A g \in DOMAIN hist'.loaded :
                InCache(cache', g, hist'.loaded[g]) /\ ActiveAt(chunks', g) = {}
       ELSE \A g \in DOMAIN hist.loaded :
                InCache(cache, g, hist.loaded[g]) =>
                    IF Hydrates(last', undoState, g)
                    THEN /\ CachedAt(cache', g) = {}
                         /\ \E i \in ActiveAt(chunks', g) :
                              /\ chunks'[i].modified
                              /\ Snapshot(chunks'[i].texture)
                                    \in HydratedFrom(last', g, hist.loaded[g])
                    ELSE /\ InCache(cache', g, hist.loaded[g])
                         /\ ActiveAt(chunks', g) = {}
      ]_vars

\* a sweep has brought a loaded chunk, which is not blank, from the cache into
\* the pool: it is resident with the loaded pixels, modified, and not cached
C31_Witness ==
    /\ last.op = "Canvas_Update"
    /\ \E g \in DOMAIN hist.loaded :
          /\ hist.loaded[g] # BlankImage
          /\ CachedAt(cache, g) = {}
          /\ \E i \in ActiveAt(chunks, g) :
                chunks[i].modified /\ Snapshot(chunks[i].texture) = hist.loaded[g]

\* the image img shows, at every local row y (0-based from the top), what the
\* render texture tex holds for that row: a primitive drawn at local row y is
\* in storage row CHUNK_SIZE - y of the texture and in row y + 1 of the image
SameOrientation(tex, img) ==
    /\ DOMAIN tex = Rows /\ DOMAIN img = Rows
    /\ \A y \in 0..(CHUNK_SIZE - 1) : img[y + 1] = tex[CHUNK_SIZE - y]

\* the chunk states the call appended to the open action
Captured(us, after) ==
    {after.currentAction.chunkStates[k] :
        k \in (DOMAIN after.currentAction.chunkStates)
                \ (DOMAIN us.currentAction.chunkStates)}

\* C32: a chunk drawn on, evicted into the cache by a sweep and reactivated
\* from the cache has, row for row, the texture it had when it was evicted,
\* which shows the drawn content the right way up; the three conversions of a
\* texture into a snapshot (cache insertion by the sweep, undo capture, save)
\* produce the same image of the same texture
C32_EvictReactivateRoundTrip ==
    [][/\ (last'.op = "Canvas_Update") =>
            \A i \in Slots :
                (chunks[i].active /\ chunks[i].modified
                    /\ CachedAt(cache', chunks[i].gridPos) # {}) =>
                    \A j \in CachedAt(cache', chunks[i].gridPos) :
                        SameOrientation(chunks[i].texture, cache'[j].image)
       /\ (last'.op = "Undo_AddChunkToCurrentAction") =>
            \A s \in Captured(undoState, undoState') :
                \A i \in ActiveAt(chunks', s.gridPos) :
                    SameOrientation(chunks'[i].texture, s.beforeImage)
       /\ (last'.op = "Canvas_Save" /\ last'.ret = TRUE) =>
            \A i \in Slots :
                (chunks[i].active /\ chunks[i].modified) =>
                    \E k \in DOMAIN disk'.records :
                        /\ disk'.records[k].gridPos = chunks[i].gridPos
                        /\ SameOrientation(chunks[i].texture, disk'.records[k].pixels)
       /\ (last'.op = "GetAndActivateChunk" /\ last'.path = "cache") =>
            /\ \A j \in CachedAt(cache, last'.arg) :
                    SameOrientation(chunks'[last'.ret].texture, cache[j].image)
            /\ (last'.arg \in DOMAIN latest /\ last'.arg \notin warned) =>
                    SameOrientation(chunks'[last'.ret].texture, latest[last'.arg])
      ]_vars

\* a chunk drawn on at its top row has been evicted into the cache and
\* reactivated: the colour is in the storage row of the top row again and the
\* other rows are blank
C32_Witness ==
    /\ last.op = "GetAndActivateChunk" /\ last.path = "cache"
    /\ last.arg \in DOMAIN latest
    /\ chunks[last.ret].texture[CHUNK_SIZE] \in Colors
    /\ \A r \in Rows \ {CHUNK_SIZE} : chunks[last.ret].texture[r] = RAYWHITE
    /\ disk = NoFile

\* the free cache slot a first-fit scan finds after r earlier insertions
NthFree(ca, r) ==
    {j \in FreeCacheSlots(ca) : Cardinality({k \in FreeCacheSlots(ca) : k < j}) = r}

\* C33: a sweep stores its modified evictees, in pool order, in the lowest-index
\* cache slots that were inactive, one each, as long as there are any; and no
\* call other than a load changes an active cache entry, except that the
\* entry is freed by the call that activates its own coordinate into the pool
C33_CacheFirstFit ==
    [][/\ (last'.op = "Canvas_Update") =>
            LET w == Window(last'.arg)
            IN  \A i \in Slots :
                    (IsEvictee(i, w) /\ chunks[i].modified) =>
                        \A j \in NthFree(cache, Cardinality(ModifiedBefore(i, w))) :
                            /\ cache'[j].active
                            /\ cache'[j].gridPos = chunks[i].gridPos
                            /\ cache'[j].image = Snapshot(chunks[i].texture)
       /\ (last'.op # "Canvas_Load") =>
            \A j \in ActiveCacheSlots(cache) :
                \/ cache'[j] = cache[j]
                \/ /\ ~cache'[j].active
                   /\ Hydrates(last', undoState, cache[j].gridPos)
                   /\ ActiveAt(chunks', cache[j].gridPos) # {}
                   /\ CachedAt(cache', cache[j].gridPos) = {}
      ]_vars

\* a sweep has stored an evictee in cache slot 1, below an older entry that is
\* still in slot 2
C33_Witness ==
    /\ last.op = "Canvas_Update"
    /\ cache[1].active /\ cache[2].active
    /\ cache[1].gridPos \in {e.gridPos : e \in last.evicted}
    /\ cache[2].gridPos \notin {e.gridPos : e \in last.evicted}

\* a sweep has found both cache slots taken and has dropped its evictee with a
\* warning; the entry of the cell outside the window is where it was
C33_FullWitness ==
    /\ last.op = "Canvas_Update"
    /\ cache[FirstFitCache].active
    /\ cache[FirstFitCache].gridPos \notin WindowSet(Window(last.arg))
    /\ \E e \in last.evicted : Printed(out, CacheFull(e.gridPos))

\* the half-open square [g*S, (g+1)*S) of the grid coordinate g
InSquare(p, g) ==
    /\ g.x * CHUNK_SIZE <= p.x /\ p.x < (g.x + 1) * CHUNK_SIZE
    /\ g.y * CHUNK_SIZE <= p.y /\ p.y < (g.y + 1) * CHUNK_SIZE

\* C34: WorldToGrid maps an integer world position p, of either sign, to the
\* floor of p / CHUNK_SIZE on each axis, that is to the grid coordinate g with
\* g*S <= p < (g+1)*S; the positions mapped to the same coordinate are those of
\* the same half-open square, and -1 is mapped to -1
C34_FloorDivision ==
    (last.op = "WorldToGrid") =>
        /\ InSquare(last.arg, last.ret)
        /\ \A q \in WorldPositions : (WorldToGrid(q) = last.ret) <=> InSquare(q, last.ret)
        /\ (last.arg.x = 0 - 1) => (last.ret.x = 0 - 1)
        /\ (last.arg.y = 0 - 1) => (last.ret.y = 0 - 1)

\* the position (-1, CHUNK_SIZE) has been mapped to the chunk (-1, 1)
C34_Witness ==
    /\ last.op = "WorldToGrid"
    /\ last.arg = Vec(0 - 1, CHUNK_SIZE)
    /\ last.ret = Vec(0 - 1, 1)

C35_OriginWitness ==
    /\ last.op = "ChunkOrigin"
    /\ last.arg.x < 0
    /\ last.ret = last.arg

\* C36: every chunk a frame of the brush or text tool drew on was held, at the
\* time of the draw, as a before-snapshot by the open action or by the action
\* opened and ended for the stamp
C36_EveryEditRecorded ==
    (last.op = "HandleToolAndDrawing") => (last.uncaptured = {})

\* the action holds a chunk state, and no two of its chunk states are of the
\* same grid coordinate
WellFormed(action) ==
    /\ Len(action) >= 1
    /\ \A a \in DOMAIN action : \A b \in DOMAIN action :
            Vector2Equals(action[a].gridPos, action[b].gridPos) => a = b

\* C37: every action on the undo stack and every action on the redo stack
\* holds at least one chunk snapshot, and the grid coordinates of its snapshots
\* are pairwise distinct
C37_StackActionsWellFormed ==
    /\ \A k \in DOMAIN undoState.undoStack : WellFormed(undoState.undoStack[k])
    /\ \A k \in DOMAIN undoState.redoStack : WellFormed(undoState.redoStack[k])

\* a gesture over two chunks has been undone: the redo stack holds its mirror
\* action, of two chunk states, and the undo stack an older action
C37_Witness ==
    /\ last.op = "Undo_PerformUndo" /\ last.ret = TRUE
    /\ undoState.undoStack # <<>>
    /\ undoState.redoStack # <<>>
    /\ Len(Top(undoState.redoStack)) = 2

\* C38: every resident chunk whose modified flag is false holds exactly the
\* blank background, so that an eviction that discards it loses no pixels
C38_UnmodifiedMeansBlank ==
    \A i \in ActiveSlots(chunks) : ~chunks[i].modified => chunks[i].texture = BlankTexture

\* an undo has written a blank before-image back: that chunk is blank and
\* marked modified, next to resident chunks that were never touched
C38_Witness ==
    /\ last.op = "Undo_PerformUndo" /\ last.ret = TRUE
    /\ \E i \in ActiveSlots(chunks) :
            chunks[i].modified /\ chunks[i].texture = BlankTexture
    /\ \E i \in ActiveSlots(chunks) : ~chunks[i].modified

=============================================================================
